---- MODULE Spec2Model ----
(***************************************************************************)
(* Verification model of go-api-utils (pkg-echo and pkg helpers).          *)
(*                                                                         *)
(* Strings are sequences of one-character strings, so that TrimSpace,      *)
(* ToLower and Fields are computed as the Go code computes them.  Dynamic  *)
(* Go values (interface{}) are records [t, s, n]: t is the dynamic type,   *)
(* s the string payload and n the numeric payload.                         *)
(*                                                                         *)
(* Time is counted in ticks; TicksPerSec ticks make one second, the        *)
(* precision to which jwt.NewNumericDate truncates.                        *)
(***************************************************************************)
EXTENDS Integers, Sequences, FiniteSets, TLC

VARIABLES
  now,     \* the clock
  tok,     \* the token string at hand
  issued,  \* how tok was issued, if this package issued it
  vres,    \* the last call of ValidateToken / ValidateCustomToken
  req,     \* the request served by JWTMiddleware
  resp,    \* the response written so far
  ctx,     \* the echo context store of the request
  calls,   \* calls of the wrapped handler and of the validator
  inp,     \* the arguments of the last helper call
  out      \* what the last helper call returned

vars == <<now, tok, issued, vres, req, resp, ctx, calls, inp, out>>

----------------------------------------------------------------------------
(* Bounds of the model                                                     *)

MaxTime == 4
MaxTTL == 2
TicksPerSec == 2
MaxHeaderLen == 5
MaxRoleLen == 2
MaxRequired == 2
IntBits == 20
MaxRows == 3
MaxCols == 3
MaxCalls == 2
MaxEnvLen == 3

----------------------------------------------------------------------------
(* Dynamic values                                                          *)

Nil == [t |-> "nil", s |-> <<>>, n |-> 0]
IntV(k) == [t |-> "int", s |-> <<>>, n |-> k]
F64V(k) == [t |-> "float64", s |-> <<>>, n |-> k]
StrV(x) == [t |-> "string", s |-> x, n |-> 0]

\* JSON values as they appear inside a token body
JAbsent == [t |-> "absent", s |-> <<>>, n |-> 0]
JNum(k) == [t |-> "number", s |-> <<>>, n |-> k]
JStr(x) == [t |-> "string", s |-> x, n |-> 0]

NoTime == -1

\* encoding/json on an interface{} value: every Go number becomes a JSON number
ToJSON(v) ==
  IF v.t \in {"int", "float64"} THEN JNum(v.n)
  ELSE IF v.t = "string" THEN JStr(v.s)
  ELSE JAbsent

\* encoding/json into interface{}: every JSON number becomes a float64
FromJSON(j) ==
  IF j.t = "number" THEN F64V(j.n)
  ELSE IF j.t = "string" THEN StrV(j.s)
  ELSE Nil

DataKeys == {"user_id", "email", "role"}

\* a map[string]interface{} restricted to the keys the middleware reads;
\* Nil marks a key that is not in the map
EmptyData == [k \in DataKeys |-> Nil]
EmptyJData == [k \in DataKeys |-> JAbsent]

\* a nil map[string]interface{}
NilMap == <<>>

----------------------------------------------------------------------------
(* Clock                                                                   *)

\* jwt.NewNumericDate truncates to jwt.TimePrecision (one second)
NewNumericDate(t) == (t \div TicksPerSec) * TicksPerSec

----------------------------------------------------------------------------
(* Secrets and the MAC                                                     *)

SeqsUpTo(S, k) == UNION {[1..m -> S] : m \in 0..k}

\* secret keys as byte strings; a Go string may hold any byte, 0 included
Secrets == {<<>>, <<1>>, <<1, 0>>, <<0, 1>>, <<1, 1>>}

RECURSIVE StripZeros(_)
StripZeros(k) ==
  IF k = <<>> THEN <<>>
  ELSE IF k[Len(k)] = 0 THEN StripZeros(SubSeq(k, 1, Len(k) - 1))
  ELSE k

\* crypto/hmac pads a key shorter than the hash block (64 bytes for SHA-256)
\* with zero bytes; keys of the model are all shorter than the block, so the
\* padded key is determined by the key without its trailing zero bytes.
HMACKey(secret) == StripZeros(secret)

HMACAlgs == {"HS256", "HS384"}
RegisteredAlgs == HMACAlgs \cup {"none", "RS256"}

----------------------------------------------------------------------------
(* Tokens                                                                  *)

\* the JSON object of the payload segment
EmptyBody ==
  [user_id |-> JAbsent, email |-> JAbsent, role |-> JAbsent,
   hasData |-> FALSE, data |-> EmptyJData,
   exp |-> NoTime, nbf |-> NoTime, iat |-> NoTime]

\* SigningMethodHMAC.Sign over the signing input header.payload
Sign(method, key, alg, body) ==
  [method |-> method, key |-> HMACKey(key), alg |-> alg, body |-> body]

\* a signature segment that is the MAC of nothing
NoSig == [method |-> "", key |-> <<>>, alg |-> "", body |-> EmptyBody]

\* a string that is not three base64 segments of JSON
Garbage == [wf |-> FALSE, alg |-> "", body |-> EmptyBody, sig |-> NoSig]

\* jwt.NewWithClaims(jwt.SigningMethodHS256, claims).SignedString(key)
SignedString(body, secretKey) ==
  [wf |-> TRUE, alg |-> "HS256", body |-> body,
   sig |-> Sign("HS256", secretKey, "HS256", body)]

\* json.Marshal of Claims: role carries omitempty
MarshalClaims(userID, email, role, exp, iat) ==
  [EmptyBody EXCEPT !.user_id = JNum(userID), !.email = JStr(email),
                    !.role = IF role = <<>> THEN JAbsent ELSE JStr(role),
                    !.exp = exp, !.iat = iat]

\* json.Marshal of CustomClaims
MarshalCustomClaims(data, exp, iat) ==
  [EmptyBody EXCEPT !.hasData = TRUE,
                    !.data = [k \in DataKeys |-> ToJSON(data[k])],
                    !.exp = exp, !.iat = iat]

\* an issuer that forgets to add the validity duration
GenerateTokenNoTTL(userID, email, role, secretKey, expiry, t) ==
  SignedString(MarshalClaims(userID, email, role,
                             NewNumericDate(t), NewNumericDate(t)),
               secretKey)

GenerateToken(userID, email, role, secretKey, expiry, t) ==
  SignedString(MarshalClaims(userID, email, role,
                             NewNumericDate(t + expiry), NewNumericDate(t)),
               secretKey)

GenerateCustomToken(data, secretKey, expiry, t) ==
  SignedString(MarshalCustomClaims(data, NewNumericDate(t + expiry),
                                   NewNumericDate(t)),
               secretKey)

----------------------------------------------------------------------------
(* Validation                                                              *)

NilClaims == [UserID |-> 0, Email |-> <<>>, Role |-> <<>>, ExpiresAt |-> NoTime]

\* json.Unmarshal of the payload into *Claims succeeds
ClaimsDecodable(body) ==
  /\ body.user_id.t \in {"number", "absent"}
  /\ body.email.t \in {"string", "absent"}
  /\ body.role.t \in {"string", "absent"}

UnmarshalClaims(body) ==
  [UserID |-> IF body.user_id.t = "number" THEN body.user_id.n ELSE 0,
   Email |-> IF body.email.t = "string" THEN body.email.s ELSE <<>>,
   Role |-> IF body.role.t = "string" THEN body.role.s ELSE <<>>,
   ExpiresAt |-> body.exp]

UnmarshalData(body) == [k \in DataKeys |-> FromJSON(body.data[k])]

\* the key function handed to jwt.ParseWithClaims
KeyFuncOK(alg) == alg \in HMACAlgs

\* a comparison that forgets the key
VerifyAnyKey(tokenString, key) ==
  /\ tokenString.alg \in HMACAlgs
  /\ \E k \in Secrets :
       tokenString.sig = Sign(tokenString.alg, k, tokenString.alg, tokenString.body)

\* SigningMethod.Verify with a []byte key: the non-HMAC methods refuse the
\* key type, the HMAC methods recompute the MAC over header.payload
Verify(tokenString, key) ==
  /\ tokenString.alg \in HMACAlgs
  /\ tokenString.sig = Sign(tokenString.alg, key, tokenString.alg, tokenString.body)

\* jwt.Parser.ParseUnverified, as ParseClaims calls it: no key, no signature,
\* no registered-claims validation
ParseUnverified(tokenString, custom, secretKey, t) ==
  IF ~tokenString.wf \/ (~custom /\ ~ClaimsDecodable(tokenString.body))
    THEN "jwt.ErrTokenMalformed"
  ELSE "nil"

\* jwt.ParseWithClaims of golang-jwt/jwt/v5 at instant t: the error it
\* returns ("nil" for none); custom says that the target is *CustomClaims
ParseWithClaims(tokenString, custom, secretKey, t) ==
  IF ~tokenString.wf \/ (~custom /\ ~ClaimsDecodable(tokenString.body))
    THEN "jwt.ErrTokenMalformed"
  ELSE IF tokenString.alg \notin RegisteredAlgs \/ ~KeyFuncOK(tokenString.alg)
    THEN "jwt.ErrTokenUnverifiable"
  ELSE IF ~Verify(tokenString, secretKey)
    THEN "jwt.ErrTokenSignatureInvalid"
  ELSE IF tokenString.body.exp # NoTime /\ ~(t < tokenString.body.exp)
    THEN "jwt.ErrTokenExpired"
  ELSE IF tokenString.body.nbf # NoTime /\ t < tokenString.body.nbf
    THEN "jwt.ErrTokenNotValidYet"
  ELSE "nil"

\* a validator that takes a missing expiry for an expired one
ValidateTokenExpRequired(tokenString, secretKey, t1, t2) ==
  LET err == ParseWithClaims(tokenString, FALSE, secretKey, t1)
      claims == UnmarshalClaims(tokenString.body)
  IN IF err # "nil" THEN [claims |-> NilClaims, err |-> err]
     ELSE IF claims.ExpiresAt = NoTime \/ claims.ExpiresAt < t2
       THEN [claims |-> NilClaims, err |-> "ErrExpiredToken"]
     ELSE [claims |-> claims, err |-> "nil"]

\* t1 is the instant the library reads, t2 the instant line 97 reads
ValidateToken(tokenString, secretKey, t1, t2) ==
  LET err == ParseWithClaims(tokenString, FALSE, secretKey, t1)
      claims == UnmarshalClaims(tokenString.body)
  IN IF err # "nil" THEN [claims |-> NilClaims, err |-> err]
     ELSE IF claims.ExpiresAt # NoTime /\ claims.ExpiresAt < t2
       THEN [claims |-> NilClaims, err |-> "ErrExpiredToken"]
     ELSE [claims |-> claims, err |-> "nil"]

ValidateCustomToken(tokenString, secretKey, t1, t2) ==
  LET err == ParseWithClaims(tokenString, TRUE, secretKey, t1)
  IN IF err # "nil" THEN [data |-> EmptyData, err |-> err]
     ELSE IF tokenString.body.exp # NoTime /\ tokenString.body.exp < t2
       THEN [data |-> EmptyData, err |-> "ErrExpiredToken"]
     ELSE [data |-> UnmarshalData(tokenString.body), err |-> "nil"]

----------------------------------------------------------------------------
(* Responses and the per-request context                                   *)

\* a written body: json is FALSE when no body was written, keys are the
\* keys of the JSON object, and a key that is not written holds its zero
NoBody ==
  [json |-> FALSE, keys |-> {}, success |-> FALSE, message |-> <<>>,
   data |-> Nil, meta |-> Nil, error |-> <<>>]

\* nothing written yet; a message is the sequence of the strings it is
\* concatenated from
NoResp == [status |-> 0, error |-> <<>>, writes |-> 0, body |-> NoBody]

\* a value encoding/json cannot encode (a channel, a func, a NaN)
Unencodable == [t |-> "chan", s |-> <<>>, n |-> 0]
Encodable(v) == v.t # "chan"

\* a Response struct value
Response(success, message, data, error) ==
  [Success |-> success, Message |-> message, Data |-> data, Error |-> error]

\* encoding/json of the echo package's Response: every field is omitempty,
\* so false, "" and a nil interface are left out
MarshalEcho(r) ==
  [json |-> TRUE,
   keys |-> (IF r.Success THEN {"success"} ELSE {})
              \cup (IF r.Message # <<>> THEN {"message"} ELSE {})
              \cup (IF r.Data # Nil THEN {"data"} ELSE {})
              \cup (IF r.Error # <<>> THEN {"error"} ELSE {}),
   success |-> r.Success, message |-> r.Message, data |-> r.Data,
   meta |-> Nil, error |-> r.Error]

\* encoding/json of the net/http package's Response: success and message
\* are always written, data and error are omitempty
MarshalHttp(r) ==
  [json |-> TRUE,
   keys |-> {"success", "message"}
              \cup (IF r.Data # Nil THEN {"data"} ELSE {})
              \cup (IF r.Error # <<>> THEN {"error"} ELSE {}),
   success |-> r.Success, message |-> r.Message, data |-> r.Data,
   meta |-> Nil, error |-> r.Error]

\* encoding/json of the map the echo Success and Paginated build: every key
\* of the map is written, a nil value as null
MarshalMap(message, data, meta, hasMeta) ==
  [json |-> TRUE,
   keys |-> {"success", "message", "data"}
              \cup (IF hasMeta THEN {"meta"} ELSE {}),
   success |-> TRUE, message |-> message, data |-> data,
   meta |-> meta, error |-> <<>>]

\* c.JSON(code, i): the status and the body are written once the value is
\* encoded; when it cannot be encoded nothing is written and the error goes
\* back to the caller
EchoJSON(w, code, body, encodable) ==
  IF encodable
    THEN [status |-> code, error |-> body.error, writes |-> w.writes + 1,
          body |-> body]
    ELSE w

\* c.NoContent(code)
NoContent(w, code) ==
  [status |-> code, error |-> <<>>, writes |-> w.writes + 1, body |-> NoBody]

\* response.Error of the echo package:
\* c.JSON(statusCode, Response{Success: false, Error: message})
Error(w, statusCode, message) ==
  EchoJSON(w, statusCode, MarshalEcho(Response(FALSE, <<>>, Nil, message)), TRUE)

\* response.BadRequest
BadRequest(w, message) == Error(w, 400, message)

\* a rejection with the status of a bad request
UnauthorizedAsBadRequest(w, message) == BadRequest(w, message)

\* response.Unauthorized
Unauthorized(w, message) == Error(w, 401, message)
Forbidden(w, message) == Error(w, 403, message)
NotFound(w, message) == Error(w, 404, message)
InternalServerError(w, message) == Error(w, 500, message)

\* response.Success of the echo package
Success(w, message, data) ==
  EchoJSON(w, 200, MarshalMap(message, data, Nil, FALSE), Encodable(data))

\* response.Paginated
Paginated(w, message, data, meta) ==
  EchoJSON(w, 200, MarshalMap(message, data, meta, TRUE),
           Encodable(data) /\ Encodable(meta))

\* a Created that answers 200
CreatedAsOK(w, message, data) ==
  EchoJSON(w, 200, MarshalEcho(Response(TRUE, message, data, <<>>)),
           Encodable(data))

\* response.Created of the echo package
Created(w, message, data) ==
  EchoJSON(w, 201, MarshalEcho(Response(TRUE, message, data, <<>>)),
           Encodable(data))

\* response.NoContent of the echo package
ResponseNoContent(w) == NoContent(w, 204)

\* writeJSON of the net/http package: the status is written first, then the
\* body if the value can be encoded; a failure is only logged
WriteJSON(w, status, v) ==
  [status |-> status, error |-> v.Error, writes |-> w.writes + 1,
   body |-> IF Encodable(v.Data) THEN MarshalHttp(v) ELSE NoBody]

\* the helpers of the net/http package
HttpSuccess(w, message, data) ==
  WriteJSON(w, 200, Response(TRUE, message, data, <<>>))
HttpCreated(w, message, data) ==
  WriteJSON(w, 201, Response(TRUE, message, data, <<>>))
HttpNoContent(w) ==
  [status |-> 204, error |-> <<>>, writes |-> w.writes + 1, body |-> NoBody]
HttpError(w, statusCode, message) ==
  WriteJSON(w, statusCode, Response(FALSE, <<>>, Nil, message))
HttpBadRequest(w, message) == HttpError(w, 400, message)
HttpNotFound(w, message) == HttpError(w, 404, message)
HttpUnauthorized(w, message) == HttpError(w, 401, message)
HttpForbidden(w, message) == HttpError(w, 403, message)
HttpInternalServerError(w, message) == HttpError(w, 500, message)

\* the echo context store: Nil is what c.Get returns for a key never set
EmptyCtx ==
  [user_id |-> Nil, email |-> Nil, role |-> Nil,
   claims |-> NilClaims, hasClaims |-> FALSE,
   token_data |-> EmptyData, hasTokenData |-> FALSE]

\* how often the wrapped handler and the token validator were called and
\* the Authorization header was read, and the context the wrapped handler
\* was started with
NoCalls == [next |-> 0, validator |-> 0, header |-> 0, seen |-> EmptyCtx]

----------------------------------------------------------------------------
(* JWT middleware                                                          *)

SP == " "
HeaderItems == {SP, "Bearer", "bearer", "T"}

\* strings.Fields: the maximal runs of non-space items
RECURSIVE FieldsFrom(_, _, _)
FieldsFrom(h, i, cur) ==
  IF i > Len(h) THEN (IF cur = <<>> THEN <<>> ELSE <<cur>>)
  ELSE IF h[i] = SP
    THEN (IF cur = <<>> THEN <<>> ELSE <<cur>>) \o FieldsFrom(h, i + 1, <<>>)
  ELSE FieldsFrom(h, i + 1, Append(cur, h[i]))

Fields(h) == FieldsFrom(h, 1, <<>>)

ToLowerItem(x) == IF x = "Bearer" THEN "bearer" ELSE x

\* strings.EqualFold(part, "Bearer")
EqualFoldBearer(part) == Len(part) = 1 /\ ToLowerItem(part[1]) = "bearer"

\* the string a header field spells: the item "T" alone spells the token t,
\* any other run of items spells no token at all
TokenString(part, t) == IF part = <<"T">> THEN t ELSE Garbage

\* the handler JWTMiddleware(config) returns, run on a request with a fresh
\* context: authHeader is the Authorization header, t the token the item "T"
\* stands for, skip what config.SkipperFunc answers (FALSE when it is nil)

\* a test that lets extra fields through
BadHeaderFormatLoose(parts) == Len(parts) < 2 \/ ~EqualFoldBearer(parts[1])

\* len(parts) != 2 || !strings.EqualFold(parts[0], "Bearer")
BadHeaderFormat(parts) == Len(parts) # 2 \/ ~EqualFoldBearer(parts[1])

\* a role written whatever it is
RoleToSetAlways(claims) == StrV(claims.Role)

\* if claims.Role != "" { c.Set("role", claims.Role) }
RoleToSet(claims) == IF claims.Role # <<>> THEN StrV(claims.Role) ELSE Nil

JWTMiddleware(config, authHeader, t, skip, t1, t2) ==
  LET parts == Fields(authHeader)
      deny(m, v) == [resp |-> Unauthorized(NoResp, m), ctx |-> EmptyCtx,
                     calls |-> [NoCalls EXCEPT !.validator = v, !.header = 1]]
      pass(c, v) == [resp |-> NoResp, ctx |-> c,
                     calls |-> [next |-> 1, validator |-> v,
                                header |-> IF skip THEN 0 ELSE 1, seen |-> c]]
  IN IF skip THEN pass(EmptyCtx, 0)
     ELSE IF authHeader = <<>> THEN deny(<<"missing authorization header">>, 0)
     ELSE IF BadHeaderFormat(parts)
       THEN deny(<<"invalid authorization header format">>, 0)
     ELSE
       LET tokenString == TokenString(parts[2], t)
       IN IF config.UseCustomToken
            THEN LET r == ValidateCustomToken(tokenString, config.SecretKey, t1, t2)
                 IN IF r.err # "nil"
                      THEN IF r.err = "ErrExpiredToken"
                             THEN deny(<<"token expired">>, 1)
                             ELSE deny(<<"invalid token">>, 1)
                      ELSE pass([EmptyCtx EXCEPT !.token_data = r.data,
                                                 !.hasTokenData = TRUE,
                                                 !.user_id = r.data.user_id,
                                                 !.email = r.data.email,
                                                 !.role = r.data.role], 1)
            ELSE LET r == ValidateToken(tokenString, config.SecretKey, t1, t2)
                 IN IF r.err # "nil"
                      THEN IF r.err = "ErrExpiredToken"
                             THEN deny(<<"token expired">>, 1)
                             ELSE deny(<<"invalid token">>, 1)
                      ELSE pass([EmptyCtx EXCEPT !.claims = r.claims,
                                                 !.hasClaims = TRUE,
                                                 !.user_id = IntV(r.claims.UserID),
                                                 !.email = StrV(r.claims.Email),
                                                 !.role = RoleToSet(r.claims)], 1)

----------------------------------------------------------------------------
(* Strings                                                                 *)

LowerChar(c) == IF c = "A" THEN "a" ELSE IF c = "X" THEN "x" ELSE c

\* strings.ToLower
ToLower(str) == [i \in 1..Len(str) |-> LowerChar(str[i])]

RECURSIVE TrimLeft(_)
TrimLeft(str) ==
  IF str # <<>> /\ str[1] = SP THEN TrimLeft(Tail(str)) ELSE str

RECURSIVE TrimRight(_)
TrimRight(str) ==
  IF str # <<>> /\ str[Len(str)] = SP
    THEN TrimRight(SubSeq(str, 1, Len(str) - 1))
    ELSE str

\* strings.TrimSpace
TrimSpace(str) == TrimRight(TrimLeft(str))

----------------------------------------------------------------------------
(* Typed accessors and the role guard                                      *)

\* request.GetString on a map: "" unless the key holds a string
GetString(data, key) ==
  IF data = NilMap THEN <<>>
  ELSE IF data[key].t = "string" THEN data[key].s
  ELSE <<>>

\* middleware.GetTokenData: the map under "token_data", or an empty map
GetTokenData(c) == IF c.hasTokenData THEN c.token_data ELSE EmptyData

\* middleware.CurrentRole
CurrentRole(c) ==
  IF c.role.t = "string" THEN c.role.s
  ELSE GetString(GetTokenData(c), "role")

\* the set RequireRoles builds from its arguments
AllowSet(allowed) == {ToLower(TrimSpace(allowed[i])) : i \in 1..Len(allowed)}

\* the handler RequireRoles(allowed...) returns, run on context c
RequireRoles(allowed, c) ==
  LET role == CurrentRole(c)
  IN IF ToLower(role) \notin AllowSet(allowed)
       THEN [resp |-> NoContent(NoResp, 403), next |-> 0]
       ELSE [resp |-> NoResp, next |-> 1]

----------------------------------------------------------------------------
(* Request binding and required fields                                     *)

\* A struct value is a sequence of fields [tag, kind, s, n]: tag is the json
\* struct tag split at its commas (<<>> for no tag), kind the reflect.Kind,
\* s the value of a string field and n the value of an int field.

\* the field is collected into values: tagged, not "-", of kind string
Collected(f) == f.tag # <<>> /\ f.tag # <<"-">> /\ f.kind = "string"

\* the values map RequireFields collects: a later field of the same name
\* overwrites an earlier one; a name never collected reads as ""
ValueOf(v, name) ==
  LET idx == {i \in 1..Len(v) : Collected(v[i]) /\ v[i].tag[1] = name}
  IN IF idx = {} THEN <<>>
     ELSE v[CHOOSE i \in idx : \A j \in idx : j <= i].s

\* validator.ValidateRequired over the map name -> value: the results a range
\* over the map may produce, one per name with a blank value
ValidateRequired(fields) ==
  LET blank == {k \in DOMAIN fields : TrimSpace(fields[k]) = <<>>}
  IN IF blank = {} THEN {[ok |-> TRUE, msg |-> <<>>]}
     ELSE {[ok |-> FALSE, msg |-> <<k, " is required">>] : k \in blank}

\* request.RequireFields: the set of results it may return
RequireFields(v, requiredJSON) ==
  IF Len(requiredJSON) = 0 THEN {[ok |-> TRUE, msg |-> <<>>]}
  ELSE LET keys == {requiredJSON[i] : i \in 1..Len(requiredJSON)}
           fieldsToCheck == [k \in keys |-> ValueOf(v, k)]
       IN ValidateRequired(fieldsToCheck)

\* the key of the JSON body a field is decoded from
JSONKey(f) == IF f.tag = <<>> THEN f.name ELSE f.tag[1]

\* c.Bind of a JSON body into the struct: the body is "malformed" or a
\* record of JSON values by key; a value of the wrong JSON type is an error
BindOK(body, v) ==
  /\ body.wf
  /\ \A i \in 1..Len(v) :
       \/ v[i].tag = <<"-">>
       \/ body.obj[JSONKey(v[i])].t = "absent"
       \/ v[i].kind = "string" /\ body.obj[JSONKey(v[i])].t = "string"
       \/ v[i].kind = "int" /\ body.obj[JSONKey(v[i])].t = "number"

Bind(body, v) ==
  [i \in 1..Len(v) |->
     LET f == v[i]
         j == body.obj[JSONKey(f)]
     IN IF f.tag = <<"-">> \/ j.t = "absent" THEN f
        ELSE IF f.kind = "string" THEN [f EXCEPT !.s = j.s]
        ELSE [f EXCEPT !.n = j.n]]

\* a BindAndRequireFields that answers false on a decode failure without
\* writing the 400 response
BindAndRequireFieldsSilent(w, body, v, requiredJSON) ==
  IF ~BindOK(body, v)
    THEN {[ok |-> FALSE, msg |-> <<"invalid request body">>, v |-> v,
           resp |-> w]}
  ELSE LET bound == Bind(body, v)
       IN {[ok |-> r.ok, msg |-> r.msg, v |-> bound,
            resp |-> IF r.ok THEN w ELSE BadRequest(w, r.msg)] :
             r \in RequireFields(bound, requiredJSON)}

\* request.BindAndRequireFields: the set of outcomes
\* [ok, resp, v] it may produce
BindAndRequireFields(w, body, v, requiredJSON) ==
  IF ~BindOK(body, v)
    THEN {[ok |-> FALSE, msg |-> <<"invalid request body">>, v |-> v,
           resp |-> BadRequest(w, <<"invalid request body">>)]}
  ELSE LET bound == Bind(body, v)
       IN {[ok |-> r.ok, msg |-> r.msg, v |-> bound,
            resp |-> IF r.ok THEN w ELSE BadRequest(w, r.msg)] :
             r \in RequireFields(bound, requiredJSON)}

----------------------------------------------------------------------------
(* Inputs                                                                  *)

Times == 0..MaxTime
TTLs == 1..MaxTTL
UserIDs == {1, 2}
Emails == {<<"e">>}
Roles == {<<>>, <<"a">>}

DataMaps ==
  {EmptyData,
   [user_id |-> IntV(1), email |-> StrV(<<"e">>), role |-> StrV(<<"a">>)],
   [user_id |-> F64V(2), email |-> Nil, role |-> StrV(<<"A">>)]}

\* the two instants one validation reads: the clock may advance in between
Instants(t) == {<<t, t>>} \cup (IF t < MaxTime THEN {<<t, t + 1>>} ELSE {})

NoIssue ==
  [fn |-> "none", secret |-> <<>>, ttl |-> 0, at |-> 0,
   claims |-> NilClaims, data |-> EmptyData]

NoInp == [fn |-> "none"]
NoOut == [ok |-> FALSE, msg |-> <<>>]

NoRes ==
  [fn |-> "none", secret |-> <<>>, t1 |-> 0, t2 |-> 0, err |-> "nil",
   claims |-> NilClaims, data |-> EmptyData]

NoReq ==
  [served |-> FALSE, header |-> <<>>, secret |-> <<>>, custom |-> FALSE,
   skip |-> FALSE, t1 |-> 0, t2 |-> 0]

----------------------------------------------------------------------------
(* Token specification: issuing, crafting and validating tokens            *)

InitToken ==
  /\ now = 0
  /\ tok = Garbage
  /\ issued = NoIssue
  /\ vres = NoRes
  /\ req = NoReq
  /\ resp = NoResp
  /\ ctx = EmptyCtx
  /\ calls = NoCalls
  /\ inp = NoInp
  /\ out = NoOut

Tick ==
  /\ now < MaxTime
  /\ now' = now + 1
  /\ vres' = NoRes
  /\ UNCHANGED <<tok, issued, req, resp, ctx, calls, inp, out>>

\* one behaviour follows one token: it is obtained once, then validated at
\* any later instants under any secrets
NoTokenYet == tok = Garbage /\ issued = NoIssue /\ vres = NoRes

IssueToken ==
  \E userID \in UserIDs, email \in Emails, role \in Roles,
     secretKey \in Secrets, expiry \in TTLs :
    /\ NoTokenYet
    /\ tok' = GenerateToken(userID, email, role, secretKey, expiry, now)
    /\ issued' = [fn |-> "GenerateToken", secret |-> secretKey, ttl |-> expiry,
                  at |-> now,
                  claims |-> [UserID |-> userID, Email |-> email, Role |-> role,
                              ExpiresAt |-> NoTime],
                  data |-> EmptyData]
    /\ vres' = NoRes
    /\ UNCHANGED <<now, req, resp, ctx, calls, inp, out>>

IssueCustomToken ==
  \E data \in DataMaps, secretKey \in Secrets, expiry \in TTLs :
    /\ NoTokenYet
    /\ tok' = GenerateCustomToken(data, secretKey, expiry, now)
    /\ issued' = [fn |-> "GenerateCustomToken", secret |-> secretKey,
                  ttl |-> expiry, at |-> now, claims |-> NilClaims,
                  data |-> data]
    /\ vres' = NoRes
    /\ UNCHANGED <<now, req, resp, ctx, calls, inp, out>>

\* a token string that did not come from this package: any header, any
\* registered claims, signed under any key or not at all
CraftedBodies ==
  {[MarshalClaims(1, <<"e">>, <<"a">>, e, NoTime) EXCEPT !.nbf = n] :
     e \in {NoTime, TicksPerSec}, n \in {NoTime, TicksPerSec}}

Crafted ==
  {Garbage}
  \cup {[wf |-> TRUE, alg |-> a, body |-> b, sig |-> Sign(a, k, a, b)] :
          a \in RegisteredAlgs, b \in CraftedBodies, k \in Secrets}
  \cup {[wf |-> TRUE, alg |-> "HS256",
          body |-> [b EXCEPT !.user_id = JNum(2)],
          sig |-> Sign("HS256", k, "HS256", b)] :
          b \in CraftedBodies, k \in Secrets}
  \cup {SignedString([EmptyBody EXCEPT !.user_id = JStr(<<"e">>)], k) :
          k \in Secrets}

Craft ==
  \E t \in Crafted \ {Garbage} :
    /\ NoTokenYet
    /\ tok' = t
    /\ issued' = NoIssue
    /\ vres' = NoRes
    /\ UNCHANGED <<now, req, resp, ctx, calls, inp, out>>

CallValidateToken ==
  \E secretKey \in Secrets, ts \in Instants(now) :
    /\ vres = NoRes
    /\ LET r == ValidateToken(tok, secretKey, ts[1], ts[2])
       IN /\ vres' = [fn |-> "ValidateToken", secret |-> secretKey,
                      t1 |-> ts[1], t2 |-> ts[2], err |-> r.err,
                      claims |-> r.claims, data |-> EmptyData]
          /\ now' = ts[2]
          /\ UNCHANGED <<tok, issued, req, resp, ctx, calls, inp, out>>

CallValidateCustomToken ==
  \E secretKey \in Secrets, ts \in Instants(now) :
    /\ vres = NoRes
    /\ LET r == ValidateCustomToken(tok, secretKey, ts[1], ts[2])
       IN /\ vres' = [fn |-> "ValidateCustomToken", secret |-> secretKey,
                      t1 |-> ts[1], t2 |-> ts[2], err |-> r.err,
                      claims |-> NilClaims, data |-> r.data]
          /\ now' = ts[2]
          /\ UNCHANGED <<tok, issued, req, resp, ctx, calls, inp, out>>

NextToken ==
  \/ Tick
  \/ IssueToken
  \/ IssueCustomToken
  \/ Craft
  \/ CallValidateToken
  \/ CallValidateCustomToken

SpecToken == InitToken /\ [][NextToken]_vars

----------------------------------------------------------------------------
(* Claims about the token validator                                        *)

Validated == vres.fn # "none"
Accepted == Validated /\ vres.err = "nil"
FromIssuer == issued.fn # "none"
SameFamily ==
  \/ issued.fn = "GenerateToken" /\ vres.fn = "ValidateToken"
  \/ issued.fn = "GenerateCustomToken" /\ vres.fn = "ValidateCustomToken"

\* C2 as stated: a token is accepted if and only if its signature verifies
\* under the secret and its expiry is strictly after the verification instant
C2_AsStated ==
  (Validated /\ vres.t1 = vres.t2) =>
    (vres.err = "nil" <=>
       /\ tok.wf
       /\ Verify(tok, vres.secret)
       /\ tok.body.exp # NoTime
       /\ vres.t1 < tok.body.exp)

\* C2 (amended): a token is accepted if and only if it is well formed (it
\* decodes into the claims type asked for), its signature verifies under the
\* secret, its expiry claim, when there is one, is strictly after the instant
\* the parser reads and not before the instant the function reads afterwards,
\* and its not-before claim, when there is one, is not after the parser's
\* instant
C2_AcceptIff ==
  Validated =>
    (vres.err = "nil" <=>
       /\ tok.wf
       /\ vres.fn = "ValidateToken" => ClaimsDecodable(tok.body)
       /\ Verify(tok, vres.secret)
       /\ (tok.body.exp = NoTime
             \/ (vres.t1 < tok.body.exp /\ vres.t2 <= tok.body.exp))
       /\ (tok.body.nbf = NoTime \/ tok.body.nbf <= vres.t1))

C2_Witness ==
  /\ Accepted
  /\ tok.body.exp = NoTime
  /\ tok.body.nbf # NoTime

\* what the data map of a custom token looks like after the JSON round trip
Redecoded(v) ==
  IF v.t \in {"int", "float64"} THEN F64V(v.n) ELSE v

\* C3 as stated: validating an issued token under the issuing secret before
\* ttl has elapsed returns the original payload
C3_AsStated ==
  (Validated /\ SameFamily /\ vres.secret = issued.secret
     /\ vres.t2 < issued.at + issued.ttl) =>
    /\ vres.err = "nil"
    /\ vres.fn = "ValidateToken" =>
         /\ vres.claims.UserID = issued.claims.UserID
         /\ vres.claims.Email = issued.claims.Email
         /\ vres.claims.Role = issued.claims.Role
    /\ vres.fn = "ValidateCustomToken" => vres.data = issued.data

\* C3 (amended): validating an issued token under the issuing secret before
\* its embedded expiry (issue instant plus ttl, truncated to whole seconds)
\* returns the user id, email and role unchanged, resp. the data map with
\* every number as a float64 of the same value
C3_RoundTrip ==
  (Validated /\ SameFamily /\ vres.secret = issued.secret
     /\ vres.t2 < NewNumericDate(issued.at + issued.ttl)) =>
    /\ vres.err = "nil"
    /\ vres.fn = "ValidateToken" =>
         /\ vres.claims.UserID = issued.claims.UserID
         /\ vres.claims.Email = issued.claims.Email
         /\ vres.claims.Role = issued.claims.Role
    /\ vres.fn = "ValidateCustomToken" =>
         \A k \in DataKeys : vres.data[k] = Redecoded(issued.data[k])

C3_Witness ==
  /\ Accepted
  /\ issued.fn = "GenerateCustomToken"
  /\ vres.fn = "ValidateCustomToken"
  /\ issued.data.user_id = IntV(1)
  /\ vres.data.user_id = F64V(1)
  /\ vres.t2 > issued.at

\* C4: a correctly signed token validated after its expiry yields the
\* sentinel ErrExpiredToken, a malformed or improperly signed one yields a
\* different error
C4_Sentinel ==
  Validated =>
    /\ (tok.wf /\ Verify(tok, vres.secret) /\ tok.body.exp # NoTime
          /\ tok.body.exp < vres.t1) => vres.err = "ErrExpiredToken"
    /\ (~tok.wf \/ ~Verify(tok, vres.secret)) =>
          vres.err \notin {"nil", "ErrExpiredToken"}

\* C5 as stated: a token issued with secret A is never accepted under a
\* different secret B
C5_AsStated ==
  (Validated /\ FromIssuer /\ issued.secret # vres.secret) => vres.err # "nil"

\* C5 (amended): a token issued with secret A is never accepted under a
\* secret B whose HMAC key differs from that of A, that is, a B that is not A
\* up to trailing zero bytes
C5_OtherKey ==
  (Validated /\ FromIssuer /\ HMACKey(issued.secret) # HMACKey(vres.secret)) =>
    vres.err # "nil"

C5_Witness ==
  /\ Validated
  /\ FromIssuer
  /\ HMACKey(issued.secret) # HMACKey(vres.secret)
  /\ vres.t2 < tok.body.exp
  /\ vres.err = "jwt.ErrTokenSignatureInvalid"

\* C6: a token whose header names an algorithm outside the HMAC family is
\* rejected under every secret
C6_NonHMACRejected ==
  (Validated /\ tok.wf /\ tok.alg \notin HMACAlgs) => vres.err # "nil"

C6_Witness ==
  /\ Validated
  /\ tok.wf
  /\ tok.alg = "none"
  /\ tok.body.exp # NoTime
  /\ vres.t2 < tok.body.exp
  /\ tok.body.nbf = NoTime
  /\ vres.err = "jwt.ErrTokenUnverifiable"

----------------------------------------------------------------------------
(* Middleware specification: one request through JWTMiddleware             *)

\* the secret the middleware is configured with, and the secrets tokens are
\* signed with
ConfigSecrets == {<<1>>}
MwSecrets == {<<1>>, <<1, 1>>}
Headers == SeqsUpTo(HeaderItems, MaxHeaderLen)

\* the tokens a client may hold: issued at instant 0 for one second, or
\* crafted
MwTokens ==
  {GenerateToken(1, <<"e">>, <<>>, k, TicksPerSec, 0) : k \in MwSecrets}
  \cup {GenerateToken(2, <<"e">>, <<"a">>, k, TicksPerSec, 0) : k \in MwSecrets}
  \cup {GenerateCustomToken(d, k, TicksPerSec, 0) : d \in DataMaps, k \in MwSecrets}
  \cup {Garbage,
        [wf |-> TRUE, alg |-> "none",
         body |-> MarshalClaims(1, <<"e">>, <<"a">>, MaxTime + 1, 0),
         sig |-> NoSig]}

\* a request not yet served, with the configuration of the middleware
Requests(headers) ==
  {[NoReq EXCEPT !.header = h, !.secret = k, !.custom = c] :
     h \in headers, k \in ConfigSecrets, c \in BOOLEAN}

\* the headers a client with a token sends
JwtHeaders ==
  {<<>>, <<"Bearer", SP, "T">>, <<"bearer", SP, SP, "T">>,
   <<"T">>, <<"Bearer", SP, "Bearer">>}

InitJWT ==
  /\ now = 0
  /\ tok \in MwTokens
  /\ issued = NoIssue
  /\ vres = NoRes
  /\ req \in Requests(JwtHeaders)
  /\ resp = NoResp
  /\ ctx = EmptyCtx
  /\ calls = NoCalls
  /\ inp = NoInp
  /\ out = NoOut

Wait ==
  /\ ~req.served
  /\ now < MaxTime
  /\ now' = now + 1
  /\ UNCHANGED <<tok, issued, vres, req, resp, ctx, calls, inp, out>>

\* the middleware built from the configuration serves the pending request
ServeJWT ==
  \E skip \in BOOLEAN, ts \in Instants(now) :
    /\ ~req.served
    /\ LET r == JWTMiddleware([SecretKey |-> req.secret,
                               UseCustomToken |-> req.custom],
                              req.header, tok, skip, ts[1], ts[2])
       IN /\ req' = [req EXCEPT !.served = TRUE, !.skip = skip,
                                !.t1 = ts[1], !.t2 = ts[2]]
          /\ resp' = r.resp
          /\ ctx' = r.ctx
          /\ calls' = r.calls
          /\ now' = ts[2]
          /\ UNCHANGED <<tok, issued, vres, inp, out>>

NextJWT == Wait \/ ServeJWT

SpecJWT == InitJWT /\ [][NextJWT]_vars

----------------------------------------------------------------------------
(* Header specification: every Authorization header up to MaxHeaderLen     *)

InitHeader ==
  /\ now = 0
  /\ tok \in {Garbage, GenerateToken(1, <<"e">>, <<"a">>, <<1>>, TicksPerSec, 0)}
  /\ issued = NoIssue
  /\ vres = NoRes
  /\ req \in Requests(Headers)
  /\ resp = NoResp
  /\ ctx = EmptyCtx
  /\ calls = NoCalls
  /\ inp = NoInp
  /\ out = NoOut

NextHeader == ServeJWT

SpecHeader == InitHeader /\ [][NextHeader]_vars

----------------------------------------------------------------------------
(* Claims about the JWT middleware                                         *)

IsSpace(h, i) == h[i] = SP

\* the header is optional blanks, the scheme Bearer in any letter case, at
\* least one blank, one run of non-blank items, optional blanks
BearerShaped(h) ==
  \E i \in 1..Len(h), j \in 1..Len(h), k \in 1..Len(h) :
    /\ i + 1 < j /\ j <= k
    /\ \A x \in 1..(i - 1) : IsSpace(h, x)
    /\ h[i] \in {"Bearer", "bearer"}
    /\ \A x \in (i + 1)..(j - 1) : IsSpace(h, x)
    /\ \A x \in j..k : ~IsSpace(h, x)
    /\ \A x \in (k + 1)..Len(h) : IsSpace(h, x)

\* the header is a Bearer header whose token is the token at hand
PresentsToken(h) ==
  \E i \in 1..Len(h), j \in 1..Len(h) :
    /\ i + 1 < j
    /\ h[i] \in {"Bearer", "bearer"}
    /\ h[j] = "T"
    /\ \A x \in 1..Len(h) : x \notin {i, j} => IsSpace(h, x)

Checked == req.served /\ ~req.skip

Rejected401(m) ==
  /\ resp.status = 401
  /\ resp.error = m
  /\ resp.writes = 1
  /\ calls.next = 0

\* C1: a correctly signed but expired Bearer token gets 401 "token expired"
\* and the handler is not invoked; every other validation failure gets 401
\* "invalid token"
C1_ExpiredMessage ==
  (Checked /\ PresentsToken(req.header)) =>
    /\ (tok.wf /\ Verify(tok, req.secret) /\ tok.body.exp # NoTime
          /\ tok.body.exp < req.t1) => Rejected401(<<"token expired">>)
    /\ (~tok.wf \/ ~Verify(tok, req.secret)) => Rejected401(<<"invalid token">>)

\* C7: without a skipper, no Authorization header gets 401 "missing
\* authorization header", a header that is not a Bearer scheme followed by one
\* token gets 401 "invalid authorization header format"; neither the handler
\* nor the validator is called
C7_HeaderRejected ==
  Checked =>
    /\ req.header = <<>> =>
         Rejected401(<<"missing authorization header">>) /\ calls.validator = 0
    /\ (req.header # <<>> /\ ~BearerShaped(req.header)) =>
         Rejected401(<<"invalid authorization header format">>) /\ calls.validator = 0

C7_Witness ==
  /\ Checked
  /\ req.header = <<"Bearer", SP, "T", SP, "T">>
  /\ tok # Garbage
  /\ resp.error = <<"invalid authorization header format">>
  /\ calls.validator = 0

----------------------------------------------------------------------------
(* Role specification: one request through RequireRoles                    *)

RoleChars == {"a", "A", SP}
RoleStrings == SeqsUpTo(RoleChars, MaxRoleLen)

\* the allow-lists handed to RequireRoles
AllowLists ==
  {<<>>} \cup {<<r>> : r \in RoleStrings}
         \cup {<<<<"a">>, r>> : r \in {<<"A">>, <<"x">>, <<>>}}

\* the contexts a request may reach the guard with
RoleContexts ==
  {[EmptyCtx EXCEPT !.role = r, !.hasTokenData = h, !.token_data.role = d] :
     r \in {Nil, IntV(1)} \cup {StrV(x) : x \in RoleStrings},
     h \in BOOLEAN,
     d \in {Nil, StrV(<<"a">>), F64V(1)}}

InitRoles ==
  /\ now = 0
  /\ tok = Garbage
  /\ issued = NoIssue
  /\ vres = NoRes
  /\ req = NoReq
  /\ resp = NoResp
  /\ ctx \in RoleContexts
  /\ calls = NoCalls
  /\ inp \in {[fn |-> "RequireRoles", allowed |-> a, done |-> FALSE] :
                a \in AllowLists}
  /\ out = NoOut

ServeRoles ==
  /\ inp.fn = "RequireRoles"
  /\ ~inp.done
  /\ LET r == RequireRoles(inp.allowed, ctx)
     IN /\ resp' = r.resp
        /\ calls' = [calls EXCEPT !.next = r.next, !.seen = ctx]
        /\ inp' = [inp EXCEPT !.done = TRUE]
        /\ UNCHANGED <<now, tok, issued, vres, req, ctx, out>>

NextRoles == ServeRoles

SpecRoles == InitRoles /\ [][NextRoles]_vars

\* the role of the context is s, up to letter case
EqualFold(a, b) == ToLower(a) = ToLower(b)

RoleAbsent(c) == CurrentRole(c) = <<>>

Guarded == inp.fn = "RequireRoles" /\ inp.done

\* C9: the handler is invoked if and only if the role read from the context
\* equals, ignoring letter case, some member of the allow-list; an absent
\* role or one not in the list gets 403 and no handler call
C9_RoleGuard ==
  Guarded =>
    /\ calls.next = 1 <=>
         \E i \in 1..Len(inp.allowed) : EqualFold(CurrentRole(ctx), inp.allowed[i])
    /\ RoleAbsent(ctx) => (resp.status = 403 /\ calls.next = 0)

----------------------------------------------------------------------------
(* Field specification: binding a body and requiring fields                *)

FieldStrings == {<<>>, <<SP>>, <<"x">>, <<SP, "x">>}

\* type SignupRequest struct {
\*   Email string `json:"email"`; Age int `json:"age,omitempty"`;
\*   Note string; Secret string `json:"-"`; Name string `json:"name"` }
ZeroStruct ==
  <<[name |-> "Email", tag |-> <<"email">>, kind |-> "string", s |-> <<>>, n |-> 0],
    [name |-> "Age", tag |-> <<"age", "omitempty">>, kind |-> "int", s |-> <<>>, n |-> 0],
    [name |-> "Note", tag |-> <<>>, kind |-> "string", s |-> <<>>, n |-> 0],
    [name |-> "Secret", tag |-> <<"-">>, kind |-> "string", s |-> <<>>, n |-> 0],
    [name |-> "Name", tag |-> <<"name">>, kind |-> "string", s |-> <<>>, n |-> 0]>>

BodyKeys == {"email", "age", "Note", "Secret", "name"}

Bodies ==
  {[wf |-> FALSE, obj |-> [k \in BodyKeys |-> JAbsent]]}
  \cup {[wf |-> TRUE,
          obj |-> [email |-> e, age |-> a, Note |-> n, Secret |-> JAbsent,
                   name |-> m]] :
          e \in {JAbsent, JNum(5)} \cup {JStr(x) : x \in FieldStrings},
          a \in {JAbsent, JNum(0), JNum(5)},
          n \in {JAbsent, JStr(<<"x">>)},
          m \in {JAbsent, JStr(<<"x">>)}}

FieldNames == {"email", "age", "Note", "zip", "name"}
RequiredLists == SeqsUpTo(FieldNames, MaxRequired)

InitFields ==
  /\ now = 0
  /\ tok = Garbage
  /\ issued = NoIssue
  /\ vres = NoRes
  /\ req = NoReq
  /\ resp = NoResp
  /\ ctx = EmptyCtx
  /\ calls = NoCalls
  /\ inp \in {[fn |-> "BindAndRequireFields", body |-> b, v |-> ZeroStruct,
                required |-> r, done |-> FALSE] :
                b \in Bodies, r \in RequiredLists}
  /\ out = NoOut

CallBindAndRequireFields ==
  /\ inp.fn = "BindAndRequireFields"
  /\ ~inp.done
  /\ \E r \in BindAndRequireFields(resp, inp.body, inp.v, inp.required) :
       /\ out' = [ok |-> r.ok, msg |-> r.msg]
       /\ resp' = r.resp
       /\ inp' = [inp EXCEPT !.v = r.v, !.done = TRUE]
  /\ UNCHANGED <<now, tok, issued, vres, req, ctx, calls>>

NextFields == CallBindAndRequireFields

SpecFields == InitFields /\ [][NextFields]_vars

Bound == inp.fn = "BindAndRequireFields" /\ inp.done /\ BindOK(inp.body, ZeroStruct)

\* the fields of the decoded struct whose json tag names them so
FieldNamed(v, name) ==
  {i \in 1..Len(v) : v[i].tag # <<>> /\ v[i].tag # <<"-">> /\ v[i].tag[1] = name}

\* the decoded value of the field is empty or whitespace-only
BlankField(f) == f.kind = "string" /\ TrimSpace(f.s) = <<>>

\* the decoded value of the field is there and not blank
NonBlankField(f) ==
  \/ f.kind = "string" /\ TrimSpace(f.s) # <<>>
  \/ f.kind = "int" /\ f.n # 0

\* C10: the named fields are evaluated on the decoded structure: a blank
\* named field is rejected, and the call accepts whenever every named field
\* is present and non-blank in the decoded value, whatever its type
C10_RequiredFields ==
  Bound =>
    /\ (\E i \in 1..Len(inp.required) :
          \E j \in FieldNamed(inp.v, inp.required[i]) : BlankField(inp.v[j]))
         => ~out.ok
    /\ (\A i \in 1..Len(inp.required) :
          /\ FieldNamed(inp.v, inp.required[i]) # {}
          /\ \A j \in FieldNamed(inp.v, inp.required[i]) : NonBlankField(inp.v[j]))
         => out.ok

\* the call has returned
Returned == inp.fn = "BindAndRequireFields" /\ inp.done

\* the positions of the caller's list whose field reads blank
Offending == {i \in 1..Len(inp.required) :
                TrimSpace(ValueOf(inp.v, inp.required[i])) = <<>>}

\* C11: when several required fields are blank, the message names the first
\* offending field in the order the caller listed the fields (and so is the
\* same on every call with the same input)
C11_FirstInOrder ==
  (Bound /\ ~out.ok) =>
    \E i \in Offending :
      /\ \A j \in Offending : i <= j
      /\ out.msg = <<inp.required[i], " is required">>

\* C12: the call returns false exactly when it has written one 400 response,
\* "invalid request body" on a decode failure and the field message on a
\* blank required field, and returns true exactly when it has written nothing
C12_ReturnMatchesResponse ==
  Returned =>
    /\ out.ok <=> resp = NoResp
    /\ ~out.ok =>
         /\ resp.status = 400
         /\ resp.writes = 1
         /\ resp.error = out.msg
         /\ IF BindOK(inp.body, ZeroStruct)
              THEN \E i \in Offending :
                     resp.error = <<inp.required[i], " is required">>
              ELSE resp.error = <<"invalid request body">>

C12_Witness ==
  /\ Returned
  /\ ~BindOK(inp.body, ZeroStruct)
  /\ ~out.ok
  /\ resp.status = 400

----------------------------------------------------------------------------
(* Pagination (pkg-echo/orm)                                               *)

\* Go's int, at the width IntBits: two's complement, wrapping on overflow
MaxInt == 2 ^ (IntBits - 1) - 1
MinInt == 0 - 2 ^ (IntBits - 1)
WrapInt(x) == ((x - MinInt) % (2 ^ IntBits)) + MinInt

\* a *gorm.DB carrying a statement: n rows match its filters; a negative
\* limit or offset is gorm's "none"
BaseQuery(n) == [n |-> n, limit |-> -1, offset |-> -1]

\* db.Limit(limit), db.Offset(offset)
Limit(db, limit) == [db EXCEPT !.limit = limit]
Offset(db, offset) == [db EXCEPT !.offset = offset]

\* the rows (by position among the matching ones) a Find on the statement
\* fetches: OFFSET is written when positive, LIMIT when not negative
Find(db) ==
  LET start == IF db.offset > 0 THEN db.offset ELSE 0
  IN {i \in 1..db.n : i > start /\ (db.limit < 0 \/ i <= start + db.limit)}

\* the total a Count on the statement scans: count(*) under the statement's
\* own LIMIT/OFFSET yields no row to scan when a row is skipped or cut
Count(db) == IF db.offset > 0 \/ db.limit = 0 THEN 0 ELSE db.n

\* orm.ApplyPagination
ApplyPagination(db, page, perPage) ==
  LET p == IF page < 1 THEN 1 ELSE page
      l == IF perPage <= 0 \/ perPage > 1000 THEN 10 ELSE perPage
      offset == WrapInt((p - 1) * l)
  IN Offset(Limit(db, l), offset)

\* a CountAndPaginate that counts on the paginated query
CountAndPaginateCountLast(base, page, perPage, countErr, findErr) ==
  LET q == ApplyPagination(base, page, perPage)
  IN IF countErr # "nil"
       THEN [total |-> 0, err |-> countErr, rows |-> {}, q |-> base]
     ELSE IF findErr # "nil"
       THEN [total |-> 0, err |-> findErr, rows |-> {}, q |-> q]
     ELSE [total |-> Count(q), err |-> "nil", rows |-> Find(q), q |-> q]

\* orm.CountAndPaginate: countErr and findErr are the errors of the two
\* queries; the result carries the statement the page was fetched with
CountAndPaginate(base, page, perPage, countErr, findErr) ==
  LET p == IF page < 1 THEN 1 ELSE page
      l == IF perPage <= 0 \/ perPage > 1000 THEN 10 ELSE perPage
      total == Count(base)
      q == ApplyPagination(base, p, l)
  IN IF countErr # "nil"
       THEN [total |-> 0, err |-> countErr, rows |-> {}, q |-> base]
     ELSE IF findErr # "nil"
       THEN [total |-> 0, err |-> findErr, rows |-> {}, q |-> q]
     ELSE [total |-> total, err |-> "nil", rows |-> Find(q), q |-> q]

Pages == {MinInt, -1, 0, 1, 2, 3, 4, MaxInt \div 2, MaxInt}
PerPages == {MinInt, -1, 0, 1, 2, 10, 999, 1000, 1001, MaxInt}

NoPage == [total |-> 0, err |-> "nil", rows |-> {}, q |-> BaseQuery(0)]

InitPage ==
  /\ now = 0
  /\ tok = Garbage
  /\ issued = NoIssue
  /\ vres = NoRes
  /\ req = NoReq
  /\ resp = NoResp
  /\ ctx = EmptyCtx
  /\ calls = NoCalls
  /\ inp \in {[fn |-> f, page |-> p, perPage |-> l, n |-> n, done |-> FALSE] :
                f \in {"ApplyPagination", "CountAndPaginate"},
                p \in Pages, l \in PerPages, n \in 0..MaxRows}
  /\ out = NoPage

CallApplyPagination ==
  /\ inp.fn = "ApplyPagination"
  /\ ~inp.done
  /\ LET q == ApplyPagination(BaseQuery(inp.n), inp.page, inp.perPage)
     IN out' = [NoPage EXCEPT !.q = q]
  /\ inp' = [inp EXCEPT !.done = TRUE]
  /\ UNCHANGED <<now, tok, issued, vres, req, resp, ctx, calls>>

CallCountAndPaginate ==
  /\ inp.fn = "CountAndPaginate"
  /\ ~inp.done
  /\ \E ce \in {"nil", "count failed"}, fe \in {"nil", "find failed"} :
       out' = CountAndPaginate(BaseQuery(inp.n), inp.page, inp.perPage, ce, fe)
  /\ inp' = [inp EXCEPT !.done = TRUE]
  /\ UNCHANGED <<now, tok, issued, vres, req, resp, ctx, calls>>

NextPage == CallApplyPagination \/ CallCountAndPaginate

SpecPage == InitPage /\ [][NextPage]_vars

\* the page, limit and offset the claim computes over the integers
ClampedPage == IF inp.page < 1 THEN 1 ELSE inp.page
ClampedLimit ==
  IF inp.perPage <= 0 \/ inp.perPage > 1000 THEN 10 ELSE inp.perPage

\* C13: for all integers page and perPage the applied limit is L and the
\* applied offset is O = (P - 1) * L, with L in 1..1000 and O never negative
C13_LimitOffset ==
  (inp.fn = "ApplyPagination" /\ inp.done) =>
    /\ out.q.limit = ClampedLimit
    /\ out.q.offset = (ClampedPage - 1) * ClampedLimit
    /\ out.q.limit \in 1..1000
    /\ out.q.offset >= 0

\* C14: the total is the count of the filtered base query, whatever page and
\* perPage are; the page is fetched with the limit and offset ApplyPagination
\* computes; a failing query gives total 0 and that query's error
C14_TotalAndPage ==
  (inp.fn = "CountAndPaginate" /\ inp.done) =>
    /\ out.err = "nil" =>
         /\ out.total = inp.n
         /\ out.q = ApplyPagination(BaseQuery(inp.n), inp.page, inp.perPage)
         /\ out.rows = Find(out.q)
    /\ out.err # "nil" =>
         /\ out.total = 0
         /\ out.err \in {"count failed", "find failed"}

C14_Witness ==
  /\ inp.fn = "CountAndPaginate"
  /\ inp.done
  /\ inp.page = 2
  /\ inp.perPage = 2
  /\ out.err = "nil"
  /\ out.total = 3
  /\ out.rows = {3}

----------------------------------------------------------------------------
(* Query builders and row check (pkg/repository)                           *)

\* the decimal digits of fmt's %d, for a number that is not negative
Digit(d) == <<"0", "1", "2", "3", "4", "5", "6", "7", "8", "9">>[d + 1]

RECURSIVE Itoa(_)
Itoa(n) == IF n < 10 THEN Digit(n) ELSE Itoa(n \div 10) \o Digit(n % 10)

\* strings.Join(elems, sep)
RECURSIVE Join(_, _)
Join(elems, sep) ==
  IF Len(elems) = 0 THEN ""
  ELSE IF Len(elems) = 1 THEN elems[1]
  ELSE elems[1] \o sep \o Join(Tail(elems), sep)

\* a placeholder numbered from the index itself
PlaceholderFromZero(i) == "$" \o Itoa(i)

\* fmt.Sprintf("$%d", i+1) for the index i of a range over the columns
Placeholder(i) == "$" \o Itoa(i + 1)

\* repository.BuildInsertQuery
BuildInsertQuery(table, columns) ==
  LET placeholders == [k \in 1..Len(columns) |-> Placeholder(k - 1)]
  IN "INSERT INTO " \o table \o " (" \o Join(columns, ", ")
       \o ") VALUES (" \o Join(placeholders, ", ") \o ") RETURNING id"

\* an identifier placeholder numbered as the last column's
IdPlaceholderLast(columns) == Len(columns)

\* len(columns)+1, the number of the placeholder of the id predicate
IdPlaceholder(columns) == Len(columns) + 1

\* repository.BuildUpdateQuery
BuildUpdateQuery(table, columns) ==
  LET setClauses ==
        [k \in 1..Len(columns) |-> columns[k] \o " = " \o Placeholder(k - 1)]
  IN "UPDATE " \o table \o " SET " \o Join(setClauses, ", ")
       \o " WHERE id = $" \o Itoa(IdPlaceholder(columns))

\* repository.BuildSelectQuery
BuildSelectQuery(table, columns, whereClause) ==
  LET query == "SELECT " \o Join(columns, ", ") \o " FROM " \o table
  IN IF whereClause # "" THEN query \o " WHERE " \o whereClause ELSE query

\* a CheckRowsAffected that never looks at the error of RowsAffected
CheckRowsAffectedIgnoringErr(result) ==
  IF result.rows = 0 THEN "sql.ErrNoRows" ELSE "nil"

\* repository.CheckRowsAffected on a sql.Result whose RowsAffected() answers
\* (result.rows, result.err)
CheckRowsAffected(result) ==
  IF result.err # "nil" THEN result.err
  ELSE IF result.rows = 0 THEN "sql.ErrNoRows"
  ELSE "nil"

Tables == {"t", "products"}
ColumnNames == {"a", "b"}
WideColumns ==
  <<"c1", "c2", "c3", "c4", "c5", "c6", "c7", "c8", "c9", "c10", "c11">>
ColumnLists == SeqsUpTo(ColumnNames, MaxCols) \cup {WideColumns}
WhereClauses == {"", " ", "id = $1"}

\* what RowsAffected() may answer: a count, or the driver's error
SqlResults ==
  {[rows |-> n, err |-> "nil"] : n \in 0..MaxRows}
  \cup {[rows |-> 0, err |-> "driver: RowsAffected not supported"]}

RepoInputs ==
  {[fn |-> f, table |-> t, columns |-> c, whereClause |-> "",
    result |-> [rows |-> 0, err |-> "nil"]] :
     f \in {"BuildInsertQuery", "BuildUpdateQuery"},
     t \in Tables, c \in ColumnLists}
  \cup {[fn |-> "BuildSelectQuery", table |-> t, columns |-> c,
         whereClause |-> w, result |-> [rows |-> 0, err |-> "nil"]] :
         t \in Tables, c \in ColumnLists, w \in WhereClauses}
  \cup {[fn |-> "CheckRowsAffected", table |-> "", columns |-> <<>>,
         whereClause |-> "", result |-> r] : r \in SqlResults}

InitRepo ==
  /\ now = 0
  /\ tok = Garbage
  /\ issued = NoIssue
  /\ vres = NoRes
  /\ req = NoReq
  /\ resp = NoResp
  /\ ctx = EmptyCtx
  /\ calls = NoCalls
  /\ inp \in RepoInputs
  /\ out = <<>>

\* out is the sequence of what the calls made so far returned
CallBuildInsertQuery ==
  /\ inp.fn = "BuildInsertQuery"
  /\ Len(out) < MaxCalls
  /\ out' = Append(out, BuildInsertQuery(inp.table, inp.columns))
  /\ UNCHANGED <<now, tok, issued, vres, req, resp, ctx, calls, inp>>

CallBuildUpdateQuery ==
  /\ inp.fn = "BuildUpdateQuery"
  /\ Len(out) < MaxCalls
  /\ out' = Append(out, BuildUpdateQuery(inp.table, inp.columns))
  /\ UNCHANGED <<now, tok, issued, vres, req, resp, ctx, calls, inp>>

CallBuildSelectQuery ==
  /\ inp.fn = "BuildSelectQuery"
  /\ Len(out) < MaxCalls
  /\ out' = Append(out, BuildSelectQuery(inp.table, inp.columns, inp.whereClause))
  /\ UNCHANGED <<now, tok, issued, vres, req, resp, ctx, calls, inp>>

CallCheckRowsAffected ==
  /\ inp.fn = "CheckRowsAffected"
  /\ Len(out) < MaxCalls
  /\ out' = Append(out, CheckRowsAffected(inp.result))
  /\ UNCHANGED <<now, tok, issued, vres, req, resp, ctx, calls, inp>>

NextRepo ==
  \/ CallBuildInsertQuery
  \/ CallBuildUpdateQuery
  \/ CallBuildSelectQuery
  \/ CallCheckRowsAffected

SpecRepo == InitRepo /\ [][NextRepo]_vars

\* the decimal numerals the claims write as $1, $2, ...
Numeral ==
  <<"1", "2", "3", "4", "5", "6", "7", "8", "9", "10", "11", "12", "13">>

\* the items of a list written one after the other, ", " before each but
\* the first
RECURSIVE Listed(_, _)
Listed(items, k) ==
  IF k = 0 THEN ""
  ELSE IF k = 1 THEN items[1]
  ELSE Listed(items, k - 1) \o ", " \o items[k]

\* C15: the INSERT statement is exactly "INSERT INTO <table> (c1, ..., cn)
\* VALUES ($1, ..., $n) RETURNING id", the columns in the given order,
\* placeholder $i at position i, and the same string on every call
C15_InsertQuery ==
  inp.fn = "BuildInsertQuery" =>
    LET n == Len(inp.columns)
        expected ==
          "INSERT INTO " \o inp.table \o " ("
            \o Listed(inp.columns, n) \o ") VALUES ("
            \o Listed([i \in 1..n |-> "$" \o Numeral[i]], n)
            \o ") RETURNING id"
    IN /\ \A k \in 1..Len(out) : out[k] = expected
       /\ (inp.table = "t" /\ inp.columns = <<"a", "b">>) =>
            \A k \in 1..Len(out) :
              out[k] = "INSERT INTO t (a, b) VALUES ($1, $2) RETURNING id"

C15_Witness ==
  /\ inp.fn = "BuildInsertQuery"
  /\ inp.columns = WideColumns
  /\ Len(out) = 2
  /\ out[1] = out[2]

\* C16: the UPDATE statement gives column ci the placeholder $i and the
\* trailing "WHERE id =" predicate the placeholder $(n+1); the SELECT
\* statement ends in " WHERE <clause>" if and only if the clause is not empty
C16_UpdateSelectQuery ==
  LET n == Len(inp.columns)
  IN /\ inp.fn = "BuildUpdateQuery" =>
          \A k \in 1..Len(out) :
            out[k] = "UPDATE " \o inp.table \o " SET "
                       \o Listed([i \in 1..n |->
                                    inp.columns[i] \o " = $" \o Numeral[i]], n)
                       \o " WHERE id = $" \o Numeral[n + 1]
     /\ inp.fn = "BuildSelectQuery" =>
          \A k \in 1..Len(out) :
            LET base == "SELECT " \o Listed(inp.columns, n)
                          \o " FROM " \o inp.table
            IN /\ inp.whereClause = "" => out[k] = base
               /\ inp.whereClause # "" =>
                    out[k] = base \o " WHERE " \o inp.whereClause

C16_Witness ==
  /\ inp.fn = "BuildUpdateQuery"
  /\ inp.table = "products"
  /\ inp.columns = <<"a", "b", "a">>
  /\ Len(out) > 0
  /\ out[1] = "UPDATE products SET a = $1, b = $2, a = $3 WHERE id = $4"

----------------------------------------------------------------------------
(* Response specification: every helper of the two response packages       *)

Messages == {<<>>, <<"m">>}
Payloads == {Nil, StrV(<<"x">>), IntV(0), Unencodable}

ErrorHelpers ==
  {"Error", "BadRequest", "Unauthorized", "Forbidden", "NotFound",
   "InternalServerError"}
SuccessHelpers == {"Success", "Created", "Paginated"}

ResponseInputs ==
  {[pkg |-> p, fn |-> f, code |-> 0, message |-> m, data |-> Nil,
    meta |-> Nil, done |-> FALSE] :
     p \in {"echo", "http"}, f \in ErrorHelpers \ {"Error"}, m \in Messages}
  \cup {[pkg |-> p, fn |-> "Error", code |-> c, message |-> m,
         data |-> Nil, meta |-> Nil, done |-> FALSE] :
         p \in {"echo", "http"}, c \in {409, 422, 503}, m \in Messages}
  \cup {[pkg |-> p, fn |-> f, code |-> 0, message |-> m, data |-> d,
         meta |-> Nil, done |-> FALSE] :
         p \in {"echo", "http"}, f \in {"Success", "Created"},
         m \in Messages, d \in Payloads}
  \cup {[pkg |-> "echo", fn |-> "Paginated", code |-> 0, message |-> m,
         data |-> d, meta |-> x, done |-> FALSE] :
         m \in Messages, d \in Payloads, x \in {IntV(1), Unencodable}}
  \cup {[pkg |-> p, fn |-> "NoContent", code |-> 0, message |-> <<>>,
         data |-> Nil, meta |-> Nil, done |-> FALSE] : p \in {"echo", "http"}}
  \cup {[pkg |-> "echo", fn |-> "RequireRoles", code |-> 0, message |-> <<>>,
         data |-> Nil, meta |-> Nil, done |-> FALSE]}

InitResponse ==
  /\ now = 0
  /\ tok = Garbage
  /\ issued = NoIssue
  /\ vres = NoRes
  /\ req = NoReq
  /\ resp = NoResp
  /\ ctx = EmptyCtx
  /\ calls = NoCalls
  /\ inp \in ResponseInputs
  /\ out = NoOut

\* the helper of the echo package called fn
EchoHelper(fn, w, code, message, data, meta) ==
  CASE fn = "Success" -> Success(w, message, data)
    [] fn = "Paginated" -> Paginated(w, message, data, meta)
    [] fn = "Created" -> Created(w, message, data)
    [] fn = "NoContent" -> ResponseNoContent(w)
    [] fn = "Error" -> Error(w, code, message)
    [] fn = "BadRequest" -> BadRequest(w, message)
    [] fn = "Unauthorized" -> Unauthorized(w, message)
    [] fn = "Forbidden" -> Forbidden(w, message)
    [] fn = "NotFound" -> NotFound(w, message)
    [] fn = "InternalServerError" -> InternalServerError(w, message)

\* the helper of the net/http package called fn
HttpHelper(fn, w, code, message, data) ==
  CASE fn = "Success" -> HttpSuccess(w, message, data)
    [] fn = "Created" -> HttpCreated(w, message, data)
    [] fn = "NoContent" -> HttpNoContent(w)
    [] fn = "Error" -> HttpError(w, code, message)
    [] fn = "BadRequest" -> HttpBadRequest(w, message)
    [] fn = "Unauthorized" -> HttpUnauthorized(w, message)
    [] fn = "Forbidden" -> HttpForbidden(w, message)
    [] fn = "NotFound" -> HttpNotFound(w, message)
    [] fn = "InternalServerError" -> HttpInternalServerError(w, message)

CallEchoHelper ==
  /\ inp.pkg = "echo"
  /\ inp.fn # "RequireRoles"
  /\ ~inp.done
  /\ resp' = EchoHelper(inp.fn, resp, inp.code, inp.message, inp.data, inp.meta)
  /\ inp' = [inp EXCEPT !.done = TRUE]
  /\ UNCHANGED <<now, tok, issued, vres, req, ctx, calls, out>>

CallHttpHelper ==
  /\ inp.pkg = "http"
  /\ ~inp.done
  /\ resp' = HttpHelper(inp.fn, resp, inp.code, inp.message, inp.data)
  /\ inp' = [inp EXCEPT !.done = TRUE]
  /\ UNCHANGED <<now, tok, issued, vres, req, ctx, calls, out>>

\* the role guard turning away a request that carries no role
RejectByRole ==
  /\ inp.fn = "RequireRoles"
  /\ ~inp.done
  /\ LET r == RequireRoles(<<<<"a">>>>, ctx)
     IN /\ resp' = r.resp
        /\ calls' = [calls EXCEPT !.next = @ + r.next]
  /\ inp' = [inp EXCEPT !.done = TRUE]
  /\ UNCHANGED <<now, tok, issued, vres, req, ctx, out>>

NextResponse == CallEchoHelper \/ CallHttpHelper \/ RejectByRole

SpecResponse == InitResponse /\ [][NextResponse]_vars

\* C18: every error helper of both packages, and every rejection of the role
\* guard, writes a body in which "success" is present with the value false
\* and "error" holds the message
C18_ErrorEnvelope ==
  (inp.done /\ inp.fn \in ErrorHelpers \cup {"RequireRoles"}) =>
    /\ resp.body.json
    /\ "success" \in resp.body.keys
    /\ ~resp.body.success
    /\ (inp.fn \in ErrorHelpers /\ inp.message # <<>>) =>
         ("error" \in resp.body.keys /\ resp.body.error = inp.message)

\* the status code each helper documents
DocumentedStatus ==
  CASE inp.fn \in {"Success", "Paginated"} -> 200
    [] inp.fn = "Created" -> 201
    [] inp.fn = "NoContent" -> 204
    [] inp.fn = "BadRequest" -> 400
    [] inp.fn = "Unauthorized" -> 401
    [] inp.fn = "Forbidden" -> 403
    [] inp.fn = "NotFound" -> 404
    [] inp.fn = "InternalServerError" -> 500
    [] OTHER -> inp.code

\* the helper has been called
Helped == inp.done /\ inp.fn # "RequireRoles"

\* the body says success and carries the message handed in
SuccessEnvelope ==
  /\ resp.body.json
  /\ "success" \in resp.body.keys
  /\ resp.body.success
  /\ resp.body.message = inp.message
  /\ inp.message # <<>> => "message" \in resp.body.keys

\* C19 as stated: each helper writes exactly its documented status code,
\* once; NoContent writes no body; the success helpers set success to true
\* and carry the message, whatever the payload
C19_AsStated ==
  Helped =>
    /\ resp.status = DocumentedStatus
    /\ resp.writes = 1
    /\ inp.fn = "NoContent" => ~resp.body.json
    /\ inp.fn \in SuccessHelpers => SuccessEnvelope

\* C19 (amended): with a payload that can be encoded as JSON each helper
\* writes exactly its documented status code, once, NoContent writes no body
\* and the success helpers set success to true and carry the message; with a
\* payload that cannot be encoded no helper writes a body, and the net/http
\* helper still writes the status once
C19_StatusAndEnvelope ==
  Helped =>
    IF Encodable(inp.data) /\ Encodable(inp.meta)
      THEN /\ resp.status = DocumentedStatus
           /\ resp.writes = 1
           /\ inp.fn = "NoContent" => ~resp.body.json
           /\ inp.fn \in SuccessHelpers => SuccessEnvelope
      ELSE /\ ~resp.body.json
           /\ inp.pkg = "http" =>
                (resp.status = DocumentedStatus /\ resp.writes = 1)

C19_Witness ==
  /\ Helped
  /\ inp.pkg = "echo"
  /\ inp.fn = "Created"
  /\ inp.data = StrV(<<"x">>)
  /\ resp.status = 201
  /\ resp.body.keys = {"success", "message", "data"}

----------------------------------------------------------------------------
(* Password hashing (pkg-echo/auth)                                        *)

\* bcrypt's cost range and default
MinCost == 4
MaxCost == 31
DefaultCost == 10

DecimalDigits == {"0", "1", "2", "3", "4", "5", "6", "7", "8", "9"}
DigitValue(c) ==
  CASE c = "0" -> 0 [] c = "1" -> 1 [] c = "2" -> 2 [] c = "3" -> 3
    [] c = "4" -> 4 [] c = "5" -> 5 [] c = "6" -> 6 [] c = "7" -> 7
    [] c = "8" -> 8 [] c = "9" -> 9

RECURSIVE DigitsValue(_)
DigitsValue(ds) ==
  IF ds = <<>> THEN 0
  ELSE DigitsValue(SubSeq(ds, 1, Len(ds) - 1)) * 10 + DigitValue(ds[Len(ds)])

\* strconv.Atoi: an optional sign, then one or more decimal digits and
\* nothing else
Atoi(v) ==
  LET signed == v # <<>> /\ v[1] \in {"+", "-"}
      ds == IF signed THEN Tail(v) ELSE v
  IN IF ds = <<>> \/ \E i \in 1..Len(ds) : ds[i] \notin DecimalDigits
       THEN [n |-> 0, ok |-> FALSE]
     ELSE [n |-> IF signed /\ v[1] = "-" THEN 0 - DigitsValue(ds)
                 ELSE DigitsValue(ds),
           ok |-> TRUE]

\* bcrypt.GenerateFromPassword: a password over 72 bytes is refused, a cost
\* below MinCost becomes the default and a cost above MaxCost is an error
GenerateFromPassword(long, cost) ==
  IF long THEN [cost |-> 0, err |-> "bcrypt.ErrPasswordTooLong"]
  ELSE IF cost > MaxCost THEN [cost |-> 0, err |-> "bcrypt.InvalidCostError"]
  ELSE [cost |-> IF cost < MinCost THEN DefaultCost ELSE cost, err |-> "nil"]

\* a range check that leaves out the two ends
ValidCostExclusive(n) == n > MinCost /\ n < MaxCost

\* n >= bcrypt.MinCost && n <= bcrypt.MaxCost
ValidCost(n) == n >= MinCost /\ n <= MaxCost

\* auth.HashPassword with BCRYPT_COST = v ("" when unset): the cost the hash
\* was made with and the error returned
HashPassword(v, long) ==
  LET parsed == Atoi(v)
      cost == IF v # <<>> /\ parsed.ok /\ ValidCost(parsed.n)
                THEN parsed.n ELSE DefaultCost
  IN GenerateFromPassword(long, cost)

\* the longest password bcrypt.GenerateFromPassword takes, and the number of
\* key bytes the cipher's key schedule reads
PasswordLimit == 72

\* the byte 0
NUL == "NUL"

\* a key schedule over the password alone, with no terminating zero byte
BcryptKeyUnterminated(password) ==
  IF password = <<>> THEN [i \in 1..PasswordLimit |-> NUL]
  ELSE [i \in 1..PasswordLimit |-> password[((i - 1) % Len(password)) + 1]]

\* the key bytes bcrypt derives the digest from: the password followed by a
\* zero byte, repeated cyclically, of which the key schedule reads the first
\* PasswordLimit
BcryptKey(password) ==
  LET ckey == Append(password, NUL)
  IN [i \in 1..PasswordLimit |-> ckey[((i - 1) % Len(ckey)) + 1]]

\* the string "", which is no bcrypt hash
EmptyString == [valid |-> FALSE, cost |-> 0, salt |-> 0, key |-> <<>>]

\* the string HashPassword returns: the encoded cost, salt and digest, the
\* digest standing for the key bytes it is computed from; "" on an error
HashString(password, v, salt) ==
  LET h == HashPassword(v, Len(password) > PasswordLimit)
  IN IF h.err # "nil" THEN EmptyString
     ELSE [valid |-> TRUE, cost |-> h.cost, salt |-> salt,
           key |-> BcryptKey(password)]

\* auth.ComparePassword: bcrypt.CompareHashAndPassword(...) == nil; the
\* digest of the plain password is recomputed under the stored cost and salt
ComparePassword(hashedPassword, plainPassword) ==
  /\ hashedPassword.valid
  /\ hashedPassword.key = BcryptKey(plainPassword)

EnvChars == {"0", "1", "2", "3", "4", "+", "-", "x"}
EnvValues == SeqsUpTo(EnvChars, MaxEnvLen)

Repeated(c, n) == [i \in 1..n |-> c]

Passwords ==
  {<<>>, <<"a">>, <<"b">>, <<"a", "a">>, <<"a", NUL>>, <<"a", NUL, "a">>,
   Repeated("a", PasswordLimit - 1), Repeated("a", PasswordLimit),
   Repeated("a", PasswordLimit + 1),
   Append(Repeated("a", PasswordLimit), "b")}
Salts == {1, 2}

InitPassword ==
  /\ now = 0
  /\ tok = Garbage
  /\ issued = NoIssue
  /\ vres = NoRes
  /\ req = NoReq
  /\ resp = NoResp
  /\ ctx = EmptyCtx
  /\ calls = NoCalls
  /\ inp \in {[fn |-> "HashPassword", env |-> v, password |-> p,
                 long |-> Len(p) > PasswordLimit, other |-> p,
                 done |-> FALSE, compared |-> FALSE] :
                v \in EnvValues,
                p \in {<<"a">>, Repeated("a", PasswordLimit + 1)}}
          \cup {[fn |-> "HashPassword", env |-> v, password |-> p,
                   long |-> Len(p) > PasswordLimit, other |-> q,
                   done |-> FALSE, compared |-> FALSE] :
                   v \in {<<>>, <<"4">>}, p \in Passwords, q \in Passwords}
  /\ out = [cost |-> 0, err |-> "nil", hash |-> EmptyString, cmp |-> FALSE]

CallHashPassword ==
  /\ inp.fn = "HashPassword"
  /\ ~inp.done
  /\ \E salt \in Salts :
       LET h == HashPassword(inp.env, inp.long)
       IN out' = [cost |-> h.cost, err |-> h.err,
                  hash |-> HashString(inp.password, inp.env, salt),
                  cmp |-> FALSE]
  /\ inp' = [inp EXCEPT !.done = TRUE]
  /\ UNCHANGED <<now, tok, issued, vres, req, resp, ctx, calls>>

\* ComparePassword of the string HashPassword returned with a plain password
CallComparePassword ==
  /\ inp.fn = "HashPassword"
  /\ inp.done
  /\ ~inp.compared
  /\ out' = [out EXCEPT !.cmp = ComparePassword(out.hash, inp.other)]
  /\ inp' = [inp EXCEPT !.compared = TRUE]
  /\ UNCHANGED <<now, tok, issued, vres, req, resp, ctx, calls>>

NextPassword == CallHashPassword \/ CallComparePassword

SpecPassword == InitPassword /\ [][NextPassword]_vars

\* the number a run of decimal digits denotes, read from the left
RECURSIVE Denoted(_, _)
Denoted(ds, acc) ==
  IF ds = <<>> THEN acc
  ELSE Denoted(Tail(ds), acc * 10 + DigitValue(Head(ds)))

\* the costs the value of BCRYPT_COST denotes as a decimal integer that is
\* within bcrypt's range: digits, leading zeros and a leading + allowed
CostsDenoted(v) ==
  LET ds == IF v # <<>> /\ v[1] = "+" THEN Tail(v) ELSE v
  IN IF ds = <<>> \/ \E i \in 1..Len(ds) : ds[i] \notin DecimalDigits
       THEN {}
     ELSE {k \in MinCost..MaxCost : k = Denoted(ds, 0)}

\* C20: the hash is made with the cost BCRYPT_COST gives if and only if the
\* value parses as an integer within MinCost..MaxCost; for any other value
\* the default cost is used, and the override never makes the call fail
C20_CostOverride ==
  (inp.fn = "HashPassword" /\ inp.done) =>
    /\ out.err # "nil" <=> inp.long
    /\ ~inp.long =>
         /\ \A k \in CostsDenoted(inp.env) : out.cost = k
         /\ CostsDenoted(inp.env) = {} => out.cost = DefaultCost

C20_Witness ==
  /\ inp.fn = "HashPassword"
  /\ inp.done
  /\ inp.env = <<"+", "3", "1">>
  /\ out.cost = 31
  /\ out.err = "nil"

\* the two plaintexts give bcrypt the same key bytes: the endless repetition
\* of each, a zero byte after every copy, agrees on the first PasswordLimit
SameKeyBytes(p, q) ==
  \A i \in 0..(PasswordLimit - 1) :
    LET a == i % (Len(p) + 1)
        b == i % (Len(q) + 1)
    IN (IF a = Len(p) THEN NUL ELSE p[a + 1])
         = (IF b = Len(q) THEN NUL ELSE q[b + 1])

Compared == inp.fn = "HashPassword" /\ inp.compared

\* C21 as stated: comparing the hash of p with p is true for every p, and
\* comparing the hash of p1 with any different p2 is false
C21_AsStated ==
  Compared =>
    /\ inp.other = inp.password => out.cmp
    /\ inp.other # inp.password => ~out.cmp

\* C21 (amended): for a plaintext of at most PasswordLimit bytes comparing
\* its hash with a plaintext is true exactly when the two give bcrypt the
\* same key bytes, so it is true for the plaintext itself; for a longer
\* plaintext hashing fails and every comparison with the returned "" is false
C21_HashCompare ==
  Compared =>
    /\ Len(inp.password) <= PasswordLimit =>
         /\ out.err = "nil"
         /\ out.cmp <=> SameKeyBytes(inp.password, inp.other)
         /\ inp.other = inp.password => out.cmp
    /\ Len(inp.password) > PasswordLimit =>
         /\ out.err # "nil"
         /\ out.hash = EmptyString
         /\ ~out.cmp

C21_Witness ==
  /\ Compared
  /\ inp.password = <<"a">>
  /\ inp.other = <<"a", NUL, "a">>
  /\ out.cmp

----------------------------------------------------------------------------
(* Database connection (pkg/database, pkg-echo/orm)                        *)

\* fmt.Sprintf("host=%s port=%s user=%s password=%s dbname=%s sslmode=%s"):
\* the connection string as its sequence of key=value items
FormatDSN(host, port, user, password, dbname, sslmode) ==
  <<[k |-> "host", v |-> host], [k |-> "port", v |-> port],
    [k |-> "user", v |-> user], [k |-> "password", v |-> password],
    [k |-> "dbname", v |-> dbname], [k |-> "sslmode", v |-> sslmode]>>

\* the driver's reading of the connection string: blanks after "=" are
\* skipped, so an empty value that is not the last takes the whole next item
\* as its value
RECURSIVE ParseOpts(_, _)
ParseOpts(items, o) ==
  IF items = <<>> THEN o
  ELSE LET i == items[1]
       IN IF i.v = "" /\ Len(items) > 1
            THEN ParseOpts(Tail(Tail(items)),
                           [o EXCEPT ![i.k] = items[2].k \o "=" \o items[2].v])
            ELSE ParseOpts(Tail(items), [o EXCEPT ![i.k] = i.v])

\* the driver's defaults for the settings the string does not give
DriverDefaults ==
  [host |-> "localhost", port |-> "5432", user |-> "os", password |-> "",
   dbname |-> "", sslmode |-> "require"]

\* where a connection attempt with the string goes
Target(items) ==
  LET o == ParseOpts(items, DriverDefaults)
  IN [o EXCEPT !.dbname = IF o.dbname = "" THEN o.user ELSE o.dbname]

\* db.Ping(): the server of the environment decides
Ping(target, server) ==
  /\ target.host \in server.hosts
  /\ target.port = "5432"
  /\ target.user \in server.roles
  /\ target.dbname \in server.dbs

\* SetMaxOpenConns(25), SetMaxIdleConns(5), SetConnMaxLifetime(5 minutes),
\* the lifetime in seconds
PoolBounds == [maxOpen |-> 25, maxIdle |-> 5, lifetime |-> 300]
NoPool == [maxOpen |-> 0, maxIdle |-> 0, lifetime |-> 0]

NoConn ==
  [handle |-> FALSE, err |-> "nil", opens |-> 0, pings |-> 0,
   pool |-> NoPool, target |-> DriverDefaults]

\* sql.Open, the three pool settings and the ping, as every connect
\* function does them
OpenAndPing(items, server) ==
  LET t == Target(items)
  IN IF Ping(t, server)
       THEN [handle |-> TRUE, err |-> "nil", opens |-> 1, pings |-> 1,
             pool |-> PoolBounds, target |-> t]
       ELSE [handle |-> FALSE, err |-> "failed to ping database",
             opens |-> 1, pings |-> 1, pool |-> PoolBounds, target |-> t]

\* database.ConnectPostgres
ConnectPostgres(config, server) ==
  OpenAndPing(FormatDSN(config.Host, config.Port, config.User,
                        config.Password, config.DBName, config.SSLMode),
              server)

\* a database URL: "" (empty), a URI that url.Parse splits into its parts
\* (scheme not empty), or a key=value string (scheme empty, items not)
EmptyURL ==
  [scheme |-> "", user |-> "", pass |-> "", host |-> "", port |-> "",
   path |-> "", sslmode |-> "", hostaddr |-> "", items |-> <<>>]

\* the host the URI branch puts into the connection string
HostOnly(u) == u.host

\* if hostaddr != "" { host = hostaddr }
HostFor(u) == IF u.hostaddr # "" THEN u.hostaddr ELSE u.host

\* database.ConnectPostgresURL
ConnectPostgresURL(databaseURL, server) ==
  IF databaseURL = EmptyURL
    THEN [NoConn EXCEPT !.err = "database URL cannot be empty"]
  ELSE IF databaseURL.scheme # ""
    THEN OpenAndPing(
           FormatDSN(HostFor(databaseURL),
                     IF databaseURL.port = "" THEN "5432" ELSE databaseURL.port,
                     databaseURL.user, databaseURL.pass, databaseURL.path,
                     IF databaseURL.sslmode = "" THEN "require"
                     ELSE databaseURL.sslmode),
           server)
  ELSE OpenAndPing(databaseURL.items, server)

\* an Init that connects whatever SKIP_DB says
InitNoSkip(skipDB, cfg, server) ==
  IF cfg.nil THEN [NoConn EXCEPT !.err = "config is nil"]
  ELSE IF cfg.DatabaseURL # EmptyURL
    THEN ConnectPostgresURL(cfg.DatabaseURL, server)
  ELSE ConnectPostgres(cfg.pg, server)

\* database.Init: cfg.nil says the pointer is nil, cfg.pg holds the discrete
\* fields
DatabaseInit(skipDB, cfg, server) ==
  IF skipDB = "1" THEN NoConn
  ELSE IF cfg.nil THEN [NoConn EXCEPT !.err = "config is nil"]
  ELSE IF cfg.DatabaseURL # EmptyURL
    THEN ConnectPostgresURL(cfg.DatabaseURL, server)
  ELSE ConnectPostgres(cfg.pg, server)

\* gorm.Open(postgres.Open(url)): one open and one ping of the URL as it is
GormOpen(u, server) ==
  LET t == [host |-> IF u.host = "" THEN "localhost" ELSE u.host,
            port |-> IF u.port = "" THEN "5432" ELSE u.port,
            user |-> IF u.user = "" THEN "os" ELSE u.user,
            password |-> u.pass,
            dbname |-> IF u.path = "" THEN u.user ELSE u.path,
            sslmode |-> IF u.sslmode = "" THEN "prefer" ELSE u.sslmode]
  IN IF Ping(t, server)
       THEN [handle |-> TRUE, err |-> "nil", opens |-> 1, pings |-> 1,
             pool |-> NoPool, target |-> t]
       ELSE [handle |-> FALSE, err |-> "failed to connect to database",
             opens |-> 1, pings |-> 1, pool |-> NoPool, target |-> t]

\* orm.Init: supabase and envURL are SUPABASE_URL and DATABASE_URL
OrmInit(skipDB, databaseURL, supabase, envURL, server) ==
  IF skipDB = "1" THEN NoConn
  ELSE LET url == IF databaseURL # EmptyURL THEN databaseURL
                  ELSE IF supabase # EmptyURL THEN supabase
                  ELSE envURL
       IN IF url = EmptyURL
            THEN [NoConn EXCEPT !.err = "no database URL provided"]
          ELSE GormOpen(url, server)

\* the servers of the environment: none reachable, an ordinary one, and one
\* that also has a database and a role named like connection-string items
Servers ==
  {[hosts |-> {}, roles |-> {}, dbs |-> {}],
   [hosts |-> {"h", "10.0.0.1", "localhost"}, roles |-> {"u"}, dbs |-> {"d"}],
   [hosts |-> {"h", "10.0.0.1", "localhost"}, roles |-> {"u"},
    dbs |-> {"d", "sslmode=disable", "sslmode=require"}]}

URLs ==
  {EmptyURL,
   [EmptyURL EXCEPT !.items = <<[k |-> "host", v |-> "h"],
                               [k |-> "user", v |-> "u"],
                               [k |-> "dbname", v |-> "d"]>>]}
  \cup {[scheme |-> "postgres", user |-> "u", pass |-> ps, host |-> h,
         port |-> pt, path |-> d, sslmode |-> m, hostaddr |-> a,
         items |-> <<>>] :
         ps \in {"", "p"}, h \in {"", "h", "x"}, pt \in {"", "5432", "6543"},
         d \in {"", "d"}, m \in {"", "disable"}, a \in {"", "10.0.0.1"}}

PostgresConfigs ==
  {[Host |-> h, Port |-> "5432", User |-> u, Password |-> ps, DBName |-> d,
    SSLMode |-> "disable"] :
     h \in {"", "h"}, u \in {"", "u"}, ps \in {"", "p"}, d \in {"", "d"}}

SkipValues == {"", "1", "0", "true"}

DefaultPg ==
  [Host |-> "h", Port |-> "5432", User |-> "u", Password |-> "p",
   DBName |-> "d", SSLMode |-> "disable"]
SomeURL ==
  [EmptyURL EXCEPT !.scheme = "postgres", !.user = "u", !.host = "h",
                   !.path = "d"]

DBInputs ==
  {[fn |-> "ConnectPostgres", skip |-> "", nil |-> FALSE, pg |-> c,
    url |-> EmptyURL, url2 |-> EmptyURL, server |-> sv, done |-> FALSE] :
     c \in PostgresConfigs, sv \in Servers}
  \cup {[fn |-> "ConnectPostgresURL", skip |-> "", nil |-> FALSE,
         pg |-> DefaultPg, url |-> u, url2 |-> EmptyURL, server |-> sv,
         done |-> FALSE] : u \in URLs, sv \in Servers}
  \cup {[fn |-> "database.Init", skip |-> k, nil |-> n, pg |-> c, url |-> u,
         url2 |-> EmptyURL, server |-> sv, done |-> FALSE] :
         k \in SkipValues, n \in BOOLEAN, c \in {DefaultPg},
         u \in {EmptyURL, SomeURL, [SomeURL EXCEPT !.host = "x"]},
         sv \in Servers}
  \cup {[fn |-> "orm.Init", skip |-> k, nil |-> FALSE, pg |-> DefaultPg,
         url |-> u, url2 |-> e, server |-> sv, done |-> FALSE] :
         k \in SkipValues, u \in {EmptyURL, SomeURL},
         e \in {EmptyURL, SomeURL}, sv \in Servers}

InitDB ==
  /\ now = 0
  /\ tok = Garbage
  /\ issued = NoIssue
  /\ vres = NoRes
  /\ req = NoReq
  /\ resp = NoResp
  /\ ctx = EmptyCtx
  /\ calls = NoCalls
  /\ inp \in DBInputs
  /\ out = NoConn

CallConnectPostgres ==
  /\ inp.fn = "ConnectPostgres"
  /\ ~inp.done
  /\ out' = ConnectPostgres(inp.pg, inp.server)
  /\ inp' = [inp EXCEPT !.done = TRUE]
  /\ UNCHANGED <<now, tok, issued, vres, req, resp, ctx, calls>>

CallConnectPostgresURL ==
  /\ inp.fn = "ConnectPostgresURL"
  /\ ~inp.done
  /\ out' = ConnectPostgresURL(inp.url, inp.server)
  /\ inp' = [inp EXCEPT !.done = TRUE]
  /\ UNCHANGED <<now, tok, issued, vres, req, resp, ctx, calls>>

CallDatabaseInit ==
  /\ inp.fn = "database.Init"
  /\ ~inp.done
  /\ out' = DatabaseInit(inp.skip,
                         [nil |-> inp.nil, DatabaseURL |-> inp.url,
                          pg |-> inp.pg],
                         inp.server)
  /\ inp' = [inp EXCEPT !.done = TRUE]
  /\ UNCHANGED <<now, tok, issued, vres, req, resp, ctx, calls>>

CallOrmInit ==
  /\ inp.fn = "orm.Init"
  /\ ~inp.done
  /\ out' = OrmInit(inp.skip, inp.url, EmptyURL, inp.url2, inp.server)
  /\ inp' = [inp EXCEPT !.done = TRUE]
  /\ UNCHANGED <<now, tok, issued, vres, req, resp, ctx, calls>>

NextDB ==
  \/ CallConnectPostgres
  \/ CallConnectPostgresURL
  \/ CallDatabaseInit
  \/ CallOrmInit

SpecDB == InitDB /\ [][NextDB]_vars

\* C22: with SKIP_DB = "1" both Init functions return a nil handle and no
\* error without any open or ping, whatever the configuration; with any
\* other value they attempt a connection or return an error, and
\* database.Init goes by DATABASE_URL when it is not empty
C22_SkipDB ==
  (inp.done /\ inp.fn \in {"database.Init", "orm.Init"}) =>
    /\ inp.skip = "1" =>
         (~out.handle /\ out.err = "nil" /\ out.opens = 0 /\ out.pings = 0)
    /\ inp.skip # "1" => (out.opens = 1 \/ out.err # "nil")
    /\ (inp.fn = "database.Init" /\ inp.skip # "1" /\ ~inp.nil
          /\ inp.url # EmptyURL) =>
         out.target.host = inp.url.host

C22_Witness ==
  /\ inp.done
  /\ inp.fn = "database.Init"
  /\ inp.skip = "1"
  /\ inp.nil
  /\ ~out.handle
  /\ out.err = "nil"

\* a URI was connected to
ViaURI == inp.done /\ inp.fn = "ConnectPostgresURL" /\ inp.url.scheme # ""

C24_ConnectChecked ==
  (inp.done /\ inp.fn \in {"ConnectPostgres", "ConnectPostgresURL"}) =>
    /\ out.handle => (out.pool = PoolBounds /\ out.pings = 1 /\ out.err = "nil")
    /\ ~out.handle => out.err # "nil"
    /\ (inp.fn = "ConnectPostgresURL" /\ inp.url = EmptyURL) => ~out.handle
    /\ (inp.fn = "ConnectPostgres"
          /\ (inp.pg.Host = "" \/ inp.pg.User = "" \/ inp.pg.DBName = "")) =>
         ~out.handle

----------------------------------------------------------------------------
(* Configuration (pkg/config)                                              *)

\* a variable that is not in the process environment
Unset == "<unset>"

EnvKeys ==
  {"PORT", "DATABASE_URL", "DB_HOST", "DB_PORT", "DB_USER", "DB_PASSWORD",
   "DB_NAME", "DB_SSL_MODE"}

\* godotenv.Load(): a .env file, when there is one, sets the variables it
\* names that the environment does not have yet
GodotenvLoad(env, file) ==
  IF ~file.present THEN env
  ELSE [k \in EnvKeys |->
          IF env[k] = Unset /\ k \in file.keys THEN file.value ELSE env[k]]

\* os.Getenv
Getenv(env, key) == IF env[key] = Unset THEN "" ELSE env[key]

\* a lookup that passes an empty value on
getEnvNoDefault(env, key, defaultValue) == Getenv(env, key)

\* config.getEnv
getEnv(env, key, defaultValue) ==
  IF Getenv(env, key) # "" THEN Getenv(env, key) ELSE defaultValue

NoConfig ==
  [Port |-> "", DatabaseURL |-> "", DBHost |-> "", DBPort |-> "",
   DBUser |-> "", DBPassword |-> "", DBName |-> "", DBSSLMode |-> ""]

\* config.LoadEnv
LoadEnv(env, file) ==
  LET e == GodotenvLoad(env, file)
  IN [aborted |-> FALSE,
      config |-> [Port |-> getEnv(e, "PORT", "8080"),
                  DatabaseURL |-> getEnv(e, "DATABASE_URL", ""),
                  DBHost |-> getEnv(e, "DB_HOST", "localhost"),
                  DBPort |-> getEnv(e, "DB_PORT", "5432"),
                  DBUser |-> getEnv(e, "DB_USER", "postgres"),
                  DBPassword |-> getEnv(e, "DB_PASSWORD", ""),
                  DBName |-> getEnv(e, "DB_NAME", "mydb"),
                  DBSSLMode |-> getEnv(e, "DB_SSL_MODE", "disable")]]

\* config.MustLoadEnv: log.Fatal ends the process, nothing is returned
MustLoadEnv(env, file) ==
  LET config == LoadEnv(env, file).config
  IN IF config.DatabaseURL = "" /\ config.DBPassword = ""
       THEN [aborted |-> TRUE, config |-> NoConfig]
       ELSE [aborted |-> FALSE, config |-> config]

\* environments: four variables take every state, the other four go together
Environments ==
  {[k \in EnvKeys |->
      CASE k = "PORT" -> a
        [] k = "DATABASE_URL" -> b
        [] k = "DB_PASSWORD" -> c
        [] k = "DB_HOST" -> d
        [] OTHER -> r] :
     a \in {Unset, "", "9090"}, b \in {Unset, "", "postgres://u@h/d"},
     c \in {Unset, "", "pw"}, d \in {Unset, "", "dbhost"},
     r \in {Unset, "e"}}

DotenvFiles ==
  {[present |-> FALSE, keys |-> {}, value |-> ""]}
  \cup {[present |-> TRUE, keys |-> ks, value |-> v] :
          ks \in {{}, {"PORT"}, {"DATABASE_URL"}, {"DB_PASSWORD", "DB_HOST"},
                  EnvKeys},
          v \in {"f", ""}}

InitConfig ==
  /\ now = 0
  /\ tok = Garbage
  /\ issued = NoIssue
  /\ vres = NoRes
  /\ req = NoReq
  /\ resp = NoResp
  /\ ctx = EmptyCtx
  /\ calls = NoCalls
  /\ inp \in {[fn |-> f, env |-> e, file |-> d, done |-> FALSE] :
                f \in {"LoadEnv", "MustLoadEnv"}, e \in Environments,
                d \in DotenvFiles}
  /\ out = [aborted |-> FALSE, config |-> NoConfig]

CallLoadEnv ==
  /\ inp.fn = "LoadEnv"
  /\ ~inp.done
  /\ out' = LoadEnv(inp.env, inp.file)
  /\ inp' = [inp EXCEPT !.done = TRUE]
  /\ UNCHANGED <<now, tok, issued, vres, req, resp, ctx, calls>>

CallMustLoadEnv ==
  /\ inp.fn = "MustLoadEnv"
  /\ ~inp.done
  /\ out' = MustLoadEnv(inp.env, inp.file)
  /\ inp' = [inp EXCEPT !.done = TRUE]
  /\ UNCHANGED <<now, tok, issued, vres, req, resp, ctx, calls>>

NextConfig == CallLoadEnv \/ CallMustLoadEnv

SpecConfig == InitConfig /\ [][NextConfig]_vars

\* the documented defaults, by variable
Defaults ==
  [k \in EnvKeys |->
     CASE k = "PORT" -> "8080"
       [] k = "DATABASE_URL" -> ""
       [] k = "DB_HOST" -> "localhost"
       [] k = "DB_PORT" -> "5432"
       [] k = "DB_USER" -> "postgres"
       [] k = "DB_PASSWORD" -> ""
       [] k = "DB_NAME" -> "mydb"
       [] k = "DB_SSL_MODE" -> "disable"]

\* the field of the snapshot that holds a variable
FieldOf(config, k) ==
  CASE k = "PORT" -> config.Port
    [] k = "DATABASE_URL" -> config.DatabaseURL
    [] k = "DB_HOST" -> config.DBHost
    [] k = "DB_PORT" -> config.DBPort
    [] k = "DB_USER" -> config.DBUser
    [] k = "DB_PASSWORD" -> config.DBPassword
    [] k = "DB_NAME" -> config.DBName
    [] k = "DB_SSL_MODE" -> config.DBSSLMode

\* the process environment once the .env file has been read
Loaded == GodotenvLoad(inp.env, inp.file)

\* every setting is the environment's value when set and not empty, and the
\* default otherwise
Snapshot(config) ==
  \A k \in EnvKeys :
    FieldOf(config, k) =
      IF Loaded[k] \notin {Unset, ""} THEN Loaded[k] ELSE Defaults[k]

----------------------------------------------------------------------------
(* Typed accessors (pkg-echo/request) and CurrentUserID                    *)

BoolV(b) == [t |-> "bool", s |-> <<>>, n |-> IF b THEN 1 ELSE 0]
UintV(k) == [t |-> "uint", s |-> <<>>, n |-> k]

\* uint(v) of an int: the same bits read without a sign
ToUint(v) == v % (2 ^ IntBits)

\* a test that lets every number through
AnySign(v) == TRUE

\* v >= 0
NonNegative(v) == v >= 0

\* request.GetInt
GetInt(data, key) ==
  IF data = NilMap THEN 0
  ELSE IF data[key].t = "float64" THEN data[key].n
  ELSE IF data[key].t = "int" THEN data[key].n
  ELSE 0

\* request.GetBool
GetBool(data, key) ==
  IF data = NilMap THEN FALSE
  ELSE IF data[key].t = "bool" THEN data[key].n = 1
  ELSE FALSE

\* request.GetFloat
GetFloat(data, key) ==
  IF data = NilMap THEN 0
  ELSE IF data[key].t = "float64" THEN data[key].n
  ELSE 0

\* request.GetUint
GetUint(data, key) ==
  IF data = NilMap THEN 0
  ELSE IF data[key].t = "float64" /\ NonNegative(data[key].n)
    THEN ToUint(data[key].n)
  ELSE IF data[key].t = "int" /\ NonNegative(data[key].n)
    THEN ToUint(data[key].n)
  ELSE IF data[key].t = "uint" THEN data[key].n
  ELSE 0

\* middleware.CurrentUserID: a value under "user_id" that gives no id falls
\* through to the custom token data
CurrentUserID(c) ==
  LET v == c.user_id
      n == Atoi(v.s)
  IN IF v.t = "uint" THEN v.n
     ELSE IF v.t = "int" /\ NonNegative(v.n) THEN ToUint(v.n)
     ELSE IF v.t = "float64" /\ NonNegative(v.n) THEN ToUint(v.n)
     ELSE IF v.t = "string" /\ n.ok /\ NonNegative(n.n) THEN ToUint(n.n)
     ELSE GetUint(GetTokenData(c), "user_id")

\* the values a map or a context may hold
StoredValues ==
  {Nil, IntV(-2), IntV(3), F64V(-2), F64V(3), StrV(<<"a">>),
   StrV(<<"-", "2">>), StrV(<<"4">>), BoolV(TRUE), BoolV(FALSE), UintV(3),
   Unencodable}

AccessorNames == {"GetInt", "GetUint", "GetString", "GetBool", "GetFloat"}

\* the contexts the middleware leaves: the custom token's user_id is also
\* the one under "user_id"
UserContexts ==
  {[EmptyCtx EXCEPT !.user_id = v] : v \in StoredValues}
  \cup {[EmptyCtx EXCEPT !.user_id = v, !.hasTokenData = TRUE,
                         !.token_data.user_id = v] : v \in StoredValues}

InitAccess ==
  /\ now = 0
  /\ tok = Garbage
  /\ issued = NoIssue
  /\ vres = NoRes
  /\ req = NoReq
  /\ resp = NoResp
  /\ calls = NoCalls
  /\ \/ /\ ctx = EmptyCtx
        /\ inp \in {[fn |-> f, data |-> d, key |-> k, done |-> FALSE] :
                      f \in AccessorNames,
                      d \in {NilMap}
                            \cup {[EmptyData EXCEPT !.user_id = v] :
                                    v \in StoredValues},
                      k \in {"user_id", "email"}}
     \/ /\ ctx \in UserContexts
        /\ inp = [fn |-> "CurrentUserID", data |-> NilMap, key |-> "user_id",
                  done |-> FALSE]
  /\ out = Nil

CallGetInt ==
  /\ inp.fn = "GetInt"
  /\ ~inp.done
  /\ out' = IntV(GetInt(inp.data, inp.key))
  /\ inp' = [inp EXCEPT !.done = TRUE]
  /\ UNCHANGED <<now, tok, issued, vres, req, resp, ctx, calls>>

CallGetUint ==
  /\ inp.fn = "GetUint"
  /\ ~inp.done
  /\ out' = UintV(GetUint(inp.data, inp.key))
  /\ inp' = [inp EXCEPT !.done = TRUE]
  /\ UNCHANGED <<now, tok, issued, vres, req, resp, ctx, calls>>

CallGetString ==
  /\ inp.fn = "GetString"
  /\ ~inp.done
  /\ out' = StrV(GetString(inp.data, inp.key))
  /\ inp' = [inp EXCEPT !.done = TRUE]
  /\ UNCHANGED <<now, tok, issued, vres, req, resp, ctx, calls>>

CallGetBool ==
  /\ inp.fn = "GetBool"
  /\ ~inp.done
  /\ out' = BoolV(GetBool(inp.data, inp.key))
  /\ inp' = [inp EXCEPT !.done = TRUE]
  /\ UNCHANGED <<now, tok, issued, vres, req, resp, ctx, calls>>

CallGetFloat ==
  /\ inp.fn = "GetFloat"
  /\ ~inp.done
  /\ out' = F64V(GetFloat(inp.data, inp.key))
  /\ inp' = [inp EXCEPT !.done = TRUE]
  /\ UNCHANGED <<now, tok, issued, vres, req, resp, ctx, calls>>

CallCurrentUserID ==
  /\ inp.fn = "CurrentUserID"
  /\ ~inp.done
  /\ out' = UintV(CurrentUserID(ctx))
  /\ inp' = [inp EXCEPT !.done = TRUE]
  /\ UNCHANGED <<now, tok, issued, vres, req, resp, ctx, calls>>

NextAccess ==
  \/ CallGetInt
  \/ CallGetUint
  \/ CallGetString
  \/ CallGetBool
  \/ CallGetFloat
  \/ CallCurrentUserID

SpecAccess == InitAccess /\ [][NextAccess]_vars

\* the types of stored value an accessor converts
Accepts ==
  [f \in AccessorNames |->
     CASE f = "GetInt" -> {"float64", "int"}
       [] f = "GetUint" -> {"float64", "int", "uint"}
       [] f = "GetString" -> {"string"}
       [] f = "GetBool" -> {"bool"}
       [] f = "GetFloat" -> {"float64"}]

\* the zero value of an accessor's result type
ZeroOf ==
  [f \in AccessorNames |->
     CASE f = "GetInt" -> IntV(0)
       [] f = "GetUint" -> UintV(0)
       [] f = "GetString" -> StrV(<<>>)
       [] f = "GetBool" -> BoolV(FALSE)
       [] f = "GetFloat" -> F64V(0)]

\* the value the accessor was asked for: Nil when the map is nil or has no
\* such key
Asked == IF inp.data = NilMap THEN Nil ELSE inp.data[inp.key]

\* the value is a negative number
Negative(v) ==
  \/ v.t \in {"int", "float64"} /\ v.n < 0
  \/ v.t = "string" /\ Atoi(v.s).ok /\ Atoi(v.s).n < 0

\* C26: an accessor returns the zero value of its result type when the map
\* is nil, the key is absent or the stored value has a type it does not
\* accept; GetUint and CurrentUserID return 0 for a negative number
C26_ZeroValue ==
  inp.done =>
    /\ (inp.fn \in AccessorNames /\ Asked.t \notin Accepts[inp.fn]) =>
         out = ZeroOf[inp.fn]
    /\ (inp.fn = "GetUint" /\ Negative(Asked)) => out = UintV(0)
    /\ (inp.fn = "CurrentUserID" /\ Negative(ctx.user_id)) => out = UintV(0)

C26_Witness ==
  /\ inp.done
  /\ inp.fn = "CurrentUserID"
  /\ ctx.user_id = F64V(-2)
  /\ ctx.hasTokenData
  /\ out = UintV(0)

----------------------------------------------------------------------------
(* WithTransaction (pkg-echo/orm)                                          *)

\* inp is the call: whether db.Begin() fails, how the callback ends ("nil",
\* "error" or "panic"), how many rows it writes before that, whether the
\* commit fails, and the step the call has reached.  out is the database
\* side: the committed rows, the rows pending in the open transaction, the
\* counts of callback runs, commits and rollbacks, and how the call ended.

TxOutcomes == {"nil", "error", "panic"}

NoTx ==
  [rows |-> 0, pending |-> 0, open |-> FALSE, fn |-> 0, commits |-> 0,
   rollbacks |-> 0, exit |-> "none", err |-> "nil"]

InitTx ==
  /\ now = 0
  /\ tok = Garbage
  /\ issued = NoIssue
  /\ vres = NoRes
  /\ req = NoReq
  /\ resp = NoResp
  /\ ctx = EmptyCtx
  /\ calls = NoCalls
  /\ inp \in {[fn |-> "WithTransaction", beginErr |-> b, outcome |-> o,
               writes |-> w, commitErr |-> c, pc |-> "begin"] :
                b \in BOOLEAN, o \in TxOutcomes, w \in 0..MaxRows,
                c \in BOOLEAN}
  /\ out \in {[NoTx EXCEPT !.rows = r] : r \in 0..MaxRows}

\* tx := db.Begin(); if tx.Error != nil { return tx.Error }
TxBegin ==
  /\ inp.fn = "WithTransaction"
  /\ inp.pc = "begin"
  /\ IF inp.beginErr
       THEN /\ out' = [out EXCEPT !.exit = "returned", !.err = "begin error"]
            /\ inp' = [inp EXCEPT !.pc = "done"]
       ELSE /\ out' = [out EXCEPT !.open = TRUE]
            /\ inp' = [inp EXCEPT !.pc = "fn"]
  /\ UNCHANGED <<now, tok, issued, vres, req, resp, ctx, calls>>

\* err := fn(tx): a panic of the callback unwinds through WithTransaction,
\* which has no deferred call
TxCallback ==
  /\ inp.fn = "WithTransaction"
  /\ inp.pc = "fn"
  /\ out' = [out EXCEPT !.fn = @ + 1, !.pending = inp.writes,
                        !.exit = IF inp.outcome = "panic" THEN "panicked"
                                 ELSE @]
  /\ inp' = [inp EXCEPT !.pc = CASE inp.outcome = "nil" -> "commit"
                                 [] inp.outcome = "error" -> "rollback"
                                 [] OTHER -> "done"]
  /\ UNCHANGED <<now, tok, issued, vres, req, resp, ctx, calls>>

\* tx.Rollback(); return err
TxRollback ==
  /\ inp.fn = "WithTransaction"
  /\ inp.pc = "rollback"
  /\ out' = [out EXCEPT !.rollbacks = @ + 1, !.pending = 0, !.open = FALSE,
                        !.exit = "returned", !.err = "callback error"]
  /\ inp' = [inp EXCEPT !.pc = "done"]
  /\ UNCHANGED <<now, tok, issued, vres, req, resp, ctx, calls>>

\* return tx.Commit().Error: a failed commit ends the transaction without
\* its rows
TxCommit ==
  /\ inp.fn = "WithTransaction"
  /\ inp.pc = "commit"
  /\ out' = [out EXCEPT !.commits = @ + 1,
                        !.rows = IF inp.commitErr THEN @ ELSE @ + out.pending,
                        !.pending = 0, !.open = FALSE, !.exit = "returned",
                        !.err = IF inp.commitErr THEN "commit error"
                                ELSE "nil"]
  /\ inp' = [inp EXCEPT !.pc = "done"]
  /\ UNCHANGED <<now, tok, issued, vres, req, resp, ctx, calls>>

NextTx == TxBegin \/ TxCallback \/ TxRollback \/ TxCommit

SpecTx == InitTx /\ [][NextTx]_vars

\* C27: the transaction is committed if and only if the callback returns
\* nil; a callback error is rolled back and returned; on every path that
\* begins a transaction exactly one of commit or rollback has been performed
\* when the call is over; when beginning fails the callback is never run
C27_CommitOrRollback ==
  inp.pc = "done" =>
    /\ out.commits = 1 <=> (~inp.beginErr /\ inp.outcome = "nil")
    /\ (~inp.beginErr /\ inp.outcome = "error") =>
         (out.rollbacks = 1 /\ out.err = "callback error")
    /\ ~inp.beginErr => (out.commits + out.rollbacks = 1 /\ ~out.open)
    /\ inp.beginErr => out.fn = 0

----------------------------------------------------------------------------
(* CORS middleware (pkg/middleware)                                        *)

CorsNames ==
  {"Access-Control-Allow-Origin", "Access-Control-Allow-Methods",
   "Access-Control-Allow-Headers"}

\* the header map after the three w.Header().Set calls
CorsHeaders ==
  [k \in CorsNames |->
     CASE k = "Access-Control-Allow-Origin" -> "*"
       [] k = "Access-Control-Allow-Methods" ->
            "GET, POST, PUT, DELETE, OPTIONS"
       [] k = "Access-Control-Allow-Headers" -> "Content-Type, Authorization"]

NoHeaders == [k \in CorsNames |-> ""]

\* a preflight test that ignores the letter case of the method
IsPreflightAnyCase(method) == method \in {"OPTIONS", "options"}

\* r.Method == "OPTIONS"
IsPreflight(method) == method = "OPTIONS"

Methods == {"GET", "POST", "PUT", "DELETE", "OPTIONS", "HEAD", "options"}

\* the wrapped handlers: the status they write (0: they write nothing) and
\* what they do to the Allow-Origin header before that
WrappedHandlers ==
  {[status |-> st, origin |-> o] :
     st \in {0, 200, 404, 500}, o \in {"keep", "replace", "delete"}}

\* out is the response writer and the call counts: the header map, the
\* status and the headers as sent (status 0: nothing sent yet), the number
\* of calls of the wrapped handler, and the header map and status as they
\* were when the middleware had set its headers
NoWriter ==
  [header |-> NoHeaders, status |-> 0, sent |-> NoHeaders, next |-> 0,
   atSet |-> NoHeaders, statusAtSet |-> 0]

InitCORS ==
  /\ now = 0
  /\ tok = Garbage
  /\ issued = NoIssue
  /\ vres = NoRes
  /\ req = NoReq
  /\ resp = NoResp
  /\ ctx = EmptyCtx
  /\ calls = NoCalls
  /\ inp \in {[fn |-> "CORS", method |-> m, handler |-> h, pc |-> "headers"] :
                m \in Methods, h \in WrappedHandlers}
  /\ out = NoWriter

\* the three w.Header().Set calls
CorsSetHeaders ==
  /\ inp.fn = "CORS"
  /\ inp.pc = "headers"
  /\ out' = [out EXCEPT !.header = CorsHeaders, !.atSet = CorsHeaders,
                        !.statusAtSet = out.status]
  /\ inp' = [inp EXCEPT !.pc = "method"]
  /\ UNCHANGED <<now, tok, issued, vres, req, resp, ctx, calls>>

\* if r.Method == "OPTIONS" { w.WriteHeader(http.StatusOK); return }
CorsPreflight ==
  /\ inp.fn = "CORS"
  /\ inp.pc = "method"
  /\ IsPreflight(inp.method)
  /\ out' = [out EXCEPT !.status = 200, !.sent = out.header]
  /\ inp' = [inp EXCEPT !.pc = "done"]
  /\ UNCHANGED <<now, tok, issued, vres, req, resp, ctx, calls>>

\* next.ServeHTTP(w, r): the wrapped handler has the header map and the
\* writer to itself
CorsNext ==
  /\ inp.fn = "CORS"
  /\ inp.pc = "method"
  /\ ~IsPreflight(inp.method)
  /\ LET h == CASE inp.handler.origin = "replace" ->
                     [out.header EXCEPT
                        !["Access-Control-Allow-Origin"] = "https://a.example"]
                [] inp.handler.origin = "delete" ->
                     [out.header EXCEPT !["Access-Control-Allow-Origin"] = ""]
                [] OTHER -> out.header
     IN out' = [out EXCEPT !.header = h, !.next = @ + 1,
                           !.status = inp.handler.status,
                           !.sent = IF inp.handler.status = 0 THEN @ ELSE h]
  /\ inp' = [inp EXCEPT !.pc = "done"]
  /\ UNCHANGED <<now, tok, issued, vres, req, resp, ctx, calls>>

NextCORS == CorsSetHeaders \/ CorsPreflight \/ CorsNext

SpecCORS == InitCORS /\ [][NextCORS]_vars

\* C28: the middleware has set its three headers before anything is written
\* and before the wrapped handler runs; an OPTIONS request is answered 200
\* with them and the wrapped handler is not invoked; for every other method
\* the wrapped handler is invoked exactly once
C28_CORS ==
  /\ (out.status # 0 \/ out.next > 0) =>
       (out.atSet = CorsHeaders /\ out.statusAtSet = 0)
  /\ inp.pc = "done" =>
       IF inp.method = "OPTIONS"
         THEN out.status = 200 /\ out.sent = CorsHeaders /\ out.next = 0
         ELSE out.next = 1

C28_Witness ==
  /\ inp.pc = "done"
  /\ inp.method = "options"
  /\ out.next = 1
  /\ out.status = 404
  /\ out.atSet = CorsHeaders

----------------------------------------------------------------------------
(* Rejections and skipped requests of the JWT middleware                   *)

\* the request was refused: the middleware ran its checks and did not call
\* the wrapped handler
Refused == Checked /\ calls.next = 0

\* C29: on every path where JWTMiddleware rejects a request the context is
\* left as it was, with none of "user_id", "email", "role", "claims" and
\* "token_data" written, and exactly one response, a 401, is written
C29_RejectLeavesContext ==
  Refused =>
    /\ ctx = EmptyCtx
    /\ resp.status = 401
    /\ resp.writes = 1

C29_Witness ==
  /\ Refused
  /\ PresentsToken(req.header)
  /\ tok.wf
  /\ Verify(tok, req.secret)
  /\ tok.body.exp # NoTime
  /\ tok.body.exp < req.t1
  /\ calls.validator = 1
  /\ ctx = EmptyCtx
  /\ resp.status = 401

\* a skipper that is never asked
SkippedNever(skipper) == FALSE

\* config.SkipperFunc != nil && config.SkipperFunc(c): skipper is "nil" for
\* no function, else the function's answer for the request
Skipped(skipper) == skipper # "nil" /\ skipper = "true"

\* if config.SecretKey == "" { panic(...) }
EmptySecret(config) == config.SecretKey = <<>>

NoGuard == [built |-> FALSE, panicked |-> FALSE, guarded |-> FALSE,
            role |-> <<>>, status |-> 0, handler |-> 0]

\* inp is the route: the skipper of the configuration, the allow-list of the
\* RequireRoles guard placed after the middleware, and the step reached
InitSkip ==
  /\ now = 0
  /\ tok \in {Garbage,
              GenerateToken(2, <<"e">>, <<"a">>, <<1>>, TicksPerSec, 0),
              GenerateCustomToken([EmptyData EXCEPT !.role = StrV(<<"a">>)],
                                  <<1>>, TicksPerSec, 0)}
  /\ issued = NoIssue
  /\ vres = NoRes
  /\ req \in {[NoReq EXCEPT !.header = h, !.secret = k, !.custom = c] :
                h \in JwtHeaders, k \in {<<>>, <<1>>}, c \in BOOLEAN}
  /\ resp = NoResp
  /\ ctx = EmptyCtx
  /\ calls = NoCalls
  /\ inp \in {[fn |-> "JWTMiddleware", skipper |-> sk, allowed |-> a,
               pc |-> "construct"] :
                sk \in {"nil", "true", "false"},
                a \in {<<>>, <<<<"a">>>>, <<<<>>>>, <<<<"a">>, <<"x">>>>}}
  /\ out = NoGuard

\* JWTMiddleware(config): an empty secret panics, else the handler is built
Construct ==
  /\ inp.fn = "JWTMiddleware"
  /\ inp.pc = "construct"
  /\ IF EmptySecret([SecretKey |-> req.secret])
       THEN /\ out' = [out EXCEPT !.panicked = TRUE]
            /\ inp' = [inp EXCEPT !.pc = "done"]
       ELSE /\ out' = [out EXCEPT !.built = TRUE]
            /\ inp' = [inp EXCEPT !.pc = "serve"]
  /\ UNCHANGED <<now, tok, issued, vres, req, resp, ctx, calls>>

\* the handler that was built serves the request
ServeBuilt ==
  /\ inp.fn = "JWTMiddleware"
  /\ inp.pc = "serve"
  /\ LET skip == Skipped(inp.skipper)
         r == JWTMiddleware([SecretKey |-> req.secret,
                             UseCustomToken |-> req.custom],
                            req.header, tok, skip, now, now)
     IN /\ req' = [req EXCEPT !.served = TRUE, !.skip = skip,
                              !.t1 = now, !.t2 = now]
        /\ resp' = r.resp
        /\ ctx' = r.ctx
        /\ calls' = r.calls
        /\ inp' = [inp EXCEPT !.pc = IF r.calls.next = 1 THEN "guard"
                                     ELSE "done"]
  /\ UNCHANGED <<now, tok, issued, vres, out>>

\* the RequireRoles guard runs as the wrapped handler
ServeGuard ==
  /\ inp.fn = "JWTMiddleware"
  /\ inp.pc = "guard"
  /\ LET g == RequireRoles(inp.allowed, ctx)
     IN /\ out' = [out EXCEPT !.guarded = TRUE, !.role = CurrentRole(ctx),
                              !.status = g.resp.status, !.handler = g.next]
        /\ resp' = g.resp
  /\ inp' = [inp EXCEPT !.pc = "done"]
  /\ UNCHANGED <<now, tok, issued, vres, req, ctx, calls>>

NextSkip == Construct \/ ServeBuilt \/ ServeGuard

SpecSkip == InitSkip /\ [][NextSkip]_vars

\* C30: when the skipper answers true the wrapped handler is invoked exactly
\* once, the Authorization header is not read, the validator is not called
\* and no context key is written, so that a RequireRoles guard placed after
\* sees an absent role; with an empty secret the construction panics and no
\* request is handled
C30_SkipperAndSecret ==
  /\ (req.served /\ inp.skipper = "true") =>
       /\ calls.next = 1
       /\ calls.header = 0
       /\ calls.validator = 0
       /\ ctx = EmptyCtx
       /\ out.guarded => out.role = <<>>
  /\ req.secret = <<>> =>
       /\ ~req.served
       /\ ~out.built
       /\ inp.pc # "construct" => out.panicked

C30_Witness ==
  /\ inp.pc = "done"
  /\ inp.skipper = "true"
  /\ req.header = <<"Bearer", SP, "T">>
  /\ tok.wf
  /\ out.guarded
  /\ out.role = <<>>
  /\ out.status = 403
  /\ calls.header = 0

====
